---------------------------- MODULE Spec2Model ----------------------------
(***************************************************************************)
(* Weather-Dashboard analysis scripts: the weather classifiers, the        *)
(* per-year streak scan of weather_momentum_analysis.build_streaks and the *)
(* year-partitioned holdout of model_validation.run_holdout_validation.    *)
(*                                                                         *)
(* Units.  Inch quantities (snowfall, snow depth, precipitation, rain) are *)
(* integers in hundredths of an inch (0.1 in = 10), sunshine is in whole   *)
(* hours and temperature in whole degrees Fahrenheit.                      *)
(*                                                                         *)
(* A cell of a row is a tagged value:                                      *)
(*   num    - a number                                                     *)
(*   nan    - float NaN, what pandas holds for an empty CSV cell           *)
(*   none   - Python None                                                  *)
(*   absent - the row has no such key                                      *)
(***************************************************************************)
EXTENDS Integers, Sequences, FiniteSets, TLC

VARIABLES
    \* --- classifier runs ---
    row,          \* the weather record handed to the classifiers
    cond,         \* result of lawn_lead_prediction.classify_weather_condition
    quality,      \* result of weather_momentum_analysis.classify_day_weather
    mv_quality,   \* result of model_validation.classify_day_weather
    sw_quality,   \* result of seasonal_weather_interaction.classify_day_weather
    \* --- weather_momentum_analysis: load_data + build_streaks ---
    csv,          \* content of daily_leads_weather.csv (see CsvRows)
    df,           \* the data frame being built (a sequence of rows)
    spc,          \* position in main(): "load", "begin", "year", "scan", "done"
    years_left,   \* years of df['year'].unique() not yet scanned
    idx,          \* positions (in df) of the current year's rows still to scan
    nice_count,   \* loop-local counter of build_streaks
    bad_count,    \* loop-local counter of build_streaks
    qualities,    \* loop-local list of build_streaks
    \* --- model_validation.run_holdout_validation, run on two input tables ---
    htab,         \* <<table A, table B>>: two contents of the CSV
    hdf,          \* <<df of run A, df of run B>>
    train,        \* <<train of A, train of B>>
    test,         \* <<test of A, test of B>>
    model,        \* <<fitted model of A, of B>>
    y_pred,       \* <<predictions of A, of B>>
    hpc,          \* position in run_holdout_validation
    fit_calls,    \* number of model.fit calls so far, per run
    pred_2026,    \* <<pred_2026 of A, of B>>
    validation,   \* <<validation result written by A, by B>>
    \* --- chronological cross-validation (train_and_evaluate and
    \*     rebuild_model_with_momentum) ---
    cv_in,        \* the merged table, in the order its rows are stored
    cv_path,      \* "lawn" (build_prediction_model) or "momentum"
    cv_X,         \* the frame whose rows are handed to cross_val_score
    cv_label,     \* which of the caller's two cross-validations is running
    cv_folds,     \* the (train, test) index sets produced so far
    cv_fitted,    \* rows the final model.fit has been given
    kpc,          \* position in the cross-validation
    \* --- the feature functions applied to one merged table ---
    ftab,         \* content of the merged table (see MergedRows)
    lp_full,      \* lawn_lead_prediction: full_years after engineer_features
    mv_full,      \* model_validation: df after engineer_features
    mdf,          \* weather_momentum_analysis.main: df
    pop_days,     \* analyze_pop_and_regression: pop_days
    dw,           \* rebuild_model_with_momentum: dw
    fpc,          \* position in the run of the feature functions
    \* --- lawn_lead_prediction.main ---
    daily,        \* aggregate_daily's table and the archive's content
    api,          \* the seasons whose weather request fails
    weather,      \* fetch_all_weather: the seasons whose frame was fetched
    daily_weather,\* the merged table
    cond_stats,   \* analyze_weather_impact: count per weather condition
    X_full,       \* build_prediction_model: X (after fillna)
    models,       \* the fitted models (total, organic)
    projection,   \* build_seasonal_projection: the projection rows
    X_pred,       \* the feature vectors handed to model.predict
    uplift,       \* quantify_weather_uplift: its df, and the result of each call
    lpc,          \* position in main()
    \* --- lawn_lead_prediction: the lead files to the daily table ---
    lead_files,   \* per date, the batch of leads the lead files hold for it
    leads,        \* load_lead_files: combined
    leads_season, \* filter_season: filtered
    daily_rows,   \* aggregate_daily: the table returned
    dpc           \* position in the loading steps of main()

cvars == <<row, cond, quality, mv_quality, sw_quality>>
svars == <<csv, df, spc, years_left, idx, nice_count, bad_count, qualities>>
hvars == <<htab, hdf, train, test, model, y_pred, hpc, fit_calls, pred_2026,
           validation>>
kvars == <<cv_in, cv_path, cv_X, cv_label, cv_folds, cv_fitted, kpc>>
fvars == <<ftab, lp_full, mv_full, mdf, pop_days, dw, fpc>>
lvars == <<daily, api, weather, daily_weather, cond_stats, X_full, models,
           projection, X_pred, uplift, lpc>>
dvars == <<lead_files, leads, leads_season, daily_rows, dpc>>
nvars == <<kvars, fvars, lvars, dvars>>
vars  == <<cvars, svars, hvars, nvars>>

-----------------------------------------------------------------------------
(* Cell values *)

Num(n) == [tag |-> "num", val |-> n]
NaN    == [tag |-> "nan", val |-> 0]
None   == [tag |-> "none", val |-> 0]
Absent == [tag |-> "absent", val |-> 0]

IsNum(x) == x.tag = "num"

\* A record none of whose weather keys exists: no weather at all.
NoRow ==
    [snowfall_in |-> Absent, snow_depth |-> Absent, precip_in |-> Absent,
     rain_in |-> Absent, sunshine_hrs |-> Absent, temp_max |-> Absent]

\* row.get(key, default): the default only when the key is absent.
PyGet(r, key, default) == IF r[key].tag = "absent" THEN default ELSE r[key]

\* Mutation of PyOr: the "or default" is dropped.
PyOrDropped(x, default) == x

\* Python's `x or default`: the default when x is falsy.  None and 0 are
\* falsy; NaN is a non-zero float and so truthy, it is kept.
PyOr(x, default) ==
    IF x.tag = "none" \/ (x.tag = "num" /\ x.val = 0) THEN default ELSE x

\* Comparisons of a float cell with a literal: False when the cell is NaN.
Gt(x, c) == x.tag = "num" /\ x.val > c
Ge(x, c) == x.tag = "num" /\ x.val >= c
Lt(x, c) == x.tag = "num" /\ x.val < c

\* Comparing None (or a missing value) with a number raises TypeError.
Comparable(x) == x.tag \in {"num", "nan"}

ConditionLabels ==
    {"Snow", "Rain", "Light Rain", "Sunny", "Partly Cloudy", "Cloudy/Overcast"}
QualityLabels == {"nice", "ok", "bad"}

-----------------------------------------------------------------------------
(* lawn_lead_prediction.classify_weather_condition *)

\* Mutation: the Rain threshold made inclusive.
classify_weather_condition_ge(r) ==
    LET snowfall == PyOr(PyGet(r, "snowfall_in", Num(0)), Num(0))
        rain     == PyOr(PyGet(r, "rain_in", Num(0)), Num(0))
        sunshine == PyOr(PyGet(r, "sunshine_hrs", Num(0)), Num(0))
        depth    == PyOr(PyGet(r, "snow_depth", Num(0)), Num(0))
    IN  IF Gt(snowfall, 10) \/ Gt(depth, 100) THEN "Snow"
        ELSE IF Ge(rain, 25) THEN "Rain"
        ELSE IF Gt(rain, 5) THEN "Light Rain"
        ELSE IF Ge(sunshine, 8) THEN "Sunny"
        ELSE IF Ge(sunshine, 4) THEN "Partly Cloudy"
        ELSE "Cloudy/Overcast"

classify_weather_condition(r) ==
    LET snowfall == PyOr(PyGet(r, "snowfall_in", Num(0)), Num(0))
        precip   == PyOr(PyGet(r, "precip_in", Num(0)), Num(0))
        rain     == PyOr(PyGet(r, "rain_in", Num(0)), Num(0))
        sunshine == PyOr(PyGet(r, "sunshine_hrs", Num(0)), Num(0))
        temp_max == PyOr(PyGet(r, "temp_max", Num(50)), Num(50))
        depth    == PyOr(PyGet(r, "snow_depth", Num(0)), Num(0))
    IN  IF \E x \in {snowfall, rain, sunshine, depth} : ~Comparable(x)
        THEN "TypeError"
        ELSE IF Gt(snowfall, 10) \/ Gt(depth, 100) THEN "Snow"
        ELSE IF Gt(rain, 25) THEN "Rain"
        ELSE IF Gt(rain, 5) THEN "Light Rain"
        ELSE IF Ge(sunshine, 8) THEN "Sunny"
        ELSE IF Ge(sunshine, 4) THEN "Partly Cloudy"
        ELSE "Cloudy/Overcast"

(* weather_momentum_analysis.classify_day_weather *)
classify_day_weather(r) ==
    LET sunshine == PyOr(PyGet(r, "sunshine_hrs", Num(0)), Num(0))
        temp     == PyOr(PyGet(r, "temp_max", Num(50)), Num(50))
        precip   == PyOr(PyGet(r, "precip_in", Num(0)), Num(0))
        snow     == PyOr(PyGet(r, "snowfall_in", Num(0)), Num(0))
        depth    == PyOr(PyGet(r, "snow_depth", Num(0)), Num(0))
    IN  IF \E x \in {sunshine, temp, precip, snow, depth} : ~Comparable(x)
        THEN "TypeError"
        ELSE IF Gt(snow, 10) \/ Gt(depth, 100) THEN "bad"
        ELSE IF Gt(precip, 20) THEN "bad"
        ELSE IF Ge(sunshine, 7) /\ Ge(temp, 55) THEN "nice"
        ELSE IF Ge(sunshine, 5) /\ Ge(temp, 50) THEN "ok"
        ELSE IF Lt(sunshine, 3) \/ Lt(temp, 42) THEN "bad"
        ELSE "ok"

(* model_validation.classify_day_weather *)
mv_classify_day_weather(r) ==
    LET sunshine == PyOr(PyGet(r, "sunshine_hrs", Num(0)), Num(0))
        temp     == PyOr(PyGet(r, "temp_max", Num(50)), Num(50))
        precip   == PyOr(PyGet(r, "precip_in", Num(0)), Num(0))
        snow     == PyOr(PyGet(r, "snowfall_in", Num(0)), Num(0))
        depth    == PyOr(PyGet(r, "snow_depth", Num(0)), Num(0))
    IN  IF \E x \in {sunshine, temp, precip, snow, depth} : ~Comparable(x)
        THEN "TypeError"
        ELSE IF Gt(snow, 10) \/ Gt(depth, 100) THEN "bad"
        ELSE IF Gt(precip, 20) THEN "bad"
        ELSE IF Ge(sunshine, 7) /\ Ge(temp, 55) THEN "nice"
        ELSE IF Ge(sunshine, 5) /\ Ge(temp, 50) THEN "ok"
        ELSE IF Lt(sunshine, 3) \/ Lt(temp, 42) THEN "bad"
        ELSE "ok"

\* Mutation of sw_classify_day_weather: 'nice' asks for more than 7 hours of
\* sunshine.
sw_classify_day_weather_above7(r) ==
    LET sunshine == PyOr(PyGet(r, "sunshine_hrs", Num(0)), Num(0))
        temp     == PyOr(PyGet(r, "temp_max", Num(50)), Num(50))
        precip   == PyOr(PyGet(r, "precip_in", Num(0)), Num(0))
        snow     == PyOr(PyGet(r, "snowfall_in", Num(0)), Num(0))
        depth    == PyOr(PyGet(r, "snow_depth", Num(0)), Num(0))
    IN  IF \E x \in {sunshine, temp, precip, snow, depth} : ~Comparable(x)
        THEN "TypeError"
        ELSE IF Gt(snow, 10) \/ Gt(depth, 100) THEN "bad"
        ELSE IF Gt(precip, 20) THEN "bad"
        ELSE IF Gt(sunshine, 7) /\ Ge(temp, 55) THEN "nice"
        ELSE IF Ge(sunshine, 5) /\ Ge(temp, 50) THEN "ok"
        ELSE IF Lt(sunshine, 3) \/ Lt(temp, 42) THEN "bad"
        ELSE "ok"

(* seasonal_weather_interaction.classify_day_weather *)
sw_classify_day_weather(r) ==
    LET sunshine == PyOr(PyGet(r, "sunshine_hrs", Num(0)), Num(0))
        temp     == PyOr(PyGet(r, "temp_max", Num(50)), Num(50))
        precip   == PyOr(PyGet(r, "precip_in", Num(0)), Num(0))
        snow     == PyOr(PyGet(r, "snowfall_in", Num(0)), Num(0))
        depth    == PyOr(PyGet(r, "snow_depth", Num(0)), Num(0))
    IN  IF \E x \in {sunshine, temp, precip, snow, depth} : ~Comparable(x)
        THEN "TypeError"
        ELSE IF Gt(snow, 10) \/ Gt(depth, 100) THEN "bad"
        ELSE IF Gt(precip, 20) THEN "bad"
        ELSE IF Ge(sunshine, 7) /\ Ge(temp, 55) THEN "nice"
        ELSE IF Ge(sunshine, 5) /\ Ge(temp, 50) THEN "ok"
        ELSE IF Lt(sunshine, 3) \/ Lt(temp, 42) THEN "bad"
        ELSE "ok"

-----------------------------------------------------------------------------
(* Classifier runs: a record drawn from values on both sides of every      *)
(* threshold and from every way a field can be missing.                    *)

SnowfallValues == {Absent, None, NaN, Num(0), Num(10), Num(11)}
SnowDepthValues == {Absent, NaN, Num(0), Num(100), Num(101)}
PrecipValues == {Absent, NaN, Num(0), Num(20), Num(21)}
RainValues == {Absent, NaN, Num(0), Num(5), Num(6), Num(25), Num(26)}
SunshineValues ==
    {Absent, None, NaN, Num(0), Num(2), Num(3), Num(4), Num(5), Num(7), Num(8)}
TempValues == {Absent, None, NaN, Num(0), Num(41), Num(42), Num(50), Num(55)}

WeatherRecords ==
    [snowfall_in : SnowfallValues, snow_depth : SnowDepthValues,
     precip_in : PrecipValues, rain_in : RainValues,
     sunshine_hrs : SunshineValues, temp_max : TempValues]

SIdle ==
    /\ csv = <<>> /\ df = <<>> /\ spc = "idle" /\ years_left = <<>>
    /\ idx = <<>> /\ nice_count = 0 /\ bad_count = 0 /\ qualities = <<>>

HIdle ==
    /\ htab = <<>> /\ hdf = <<>> /\ train = <<>> /\ test = <<>>
    /\ model = <<>> /\ y_pred = <<>> /\ hpc = "idle"
    /\ fit_calls = <<>> /\ pred_2026 = <<>> /\ validation = <<>>

CIdle ==
    /\ row = NoRow
    /\ cond = "unset" /\ quality = "unset" /\ mv_quality = "unset"
    /\ sw_quality = "unset"

KIdle ==
    /\ cv_in = <<>> /\ cv_path = "none" /\ cv_X = <<>> /\ cv_label = "none"
    /\ cv_folds = <<>> /\ cv_fitted = <<>> /\ kpc = "idle"

FIdle ==
    /\ ftab = <<>> /\ lp_full = <<>> /\ mv_full = <<>> /\ mdf = <<>>
    /\ pop_days = <<>> /\ dw = <<>> /\ fpc = "idle"

LIdle ==
    /\ daily = <<>> /\ api = {} /\ weather = <<>> /\ daily_weather = <<>>
    /\ cond_stats = {} /\ X_full = <<>> /\ models = <<>> /\ projection = <<>>
    /\ X_pred = <<>> /\ uplift = <<>> /\ lpc = "idle"

DIdle ==
    /\ lead_files = <<>> /\ leads = <<>> /\ leads_season = <<>>
    /\ daily_rows = <<>> /\ dpc = "idle"

NIdle == KIdle /\ FIdle /\ LIdle /\ DIdle

InitClassify ==
    /\ row \in WeatherRecords
    /\ cond = "unset" /\ quality = "unset" /\ mv_quality = "unset"
    /\ sw_quality = "unset"
    /\ SIdle /\ HIdle /\ NIdle

ClassifyCondition ==
    /\ cond = "unset"
    /\ cond' = classify_weather_condition(row)
    /\ UNCHANGED <<row, quality, mv_quality, sw_quality, svars, hvars, nvars>>

ClassifyQuality ==
    /\ quality = "unset"
    /\ quality' = classify_day_weather(row)
    /\ UNCHANGED <<row, cond, mv_quality, sw_quality, svars, hvars, nvars>>

ClassifyQualityMV ==
    /\ mv_quality = "unset"
    /\ mv_quality' = mv_classify_day_weather(row)
    /\ UNCHANGED <<row, cond, quality, sw_quality, svars, hvars, nvars>>

ClassifyQualitySW ==
    /\ sw_quality = "unset"
    /\ sw_quality' = sw_classify_day_weather(row)
    /\ UNCHANGED <<row, cond, quality, mv_quality, svars, hvars, nvars>>

NextClassify ==
    \/ ClassifyCondition \/ ClassifyQuality \/ ClassifyQualityMV
    \/ ClassifyQualitySW

SpecClassify == InitClassify /\ [][NextClassify]_vars

-----------------------------------------------------------------------------
(* weather_momentum_analysis: load_data and build_streaks                  *)
(*                                                                         *)
(* The merged table daily_leads_weather.csv holds one row per date that    *)
(* had a lead.  A date is (year, day), day being the offset from Feb 15.   *)
(* The table here holds the first MaxDays days of seasons 2024 (Thu Feb 15, *)
(* Fri, Sat, ...) and 2025 (Sat Feb 15, Sun, Mon, ...) and the first day   *)
(* of the 2026 partial season.  The variable csv holds, for each of these  *)
(* dates, the name of the weather of its row, or "norow"; CsvRows gives    *)
(* the rows.                                                               *)

MaxDays == 3

ScanYears == {2024, 2025}
PartialYear == 2026

\* Weekday of Feb 15 (0 = Monday .. 6 = Sunday) in the years of the table.
Feb15Dow(year) ==
    CASE year = 2023 -> 2
      [] year = 2024 -> 3
      [] year = 2025 -> 5
      [] year = 2026 -> 6

\* aggregate_daily: dow = date.dayofweek
DowOf(year, day) == (Feb15Dow(year) + day) % 7

\* One day's weather of each quality, as numbers read from the CSV.
NiceWeather ==
    [snowfall_in |-> Num(0), snow_depth |-> Num(0), precip_in |-> Num(0),
     rain_in |-> Num(0), sunshine_hrs |-> Num(9), temp_max |-> Num(60)]
OkWeather ==
    [snowfall_in |-> Num(0), snow_depth |-> Num(0), precip_in |-> Num(5),
     rain_in |-> Num(5), sunshine_hrs |-> Num(5), temp_max |-> Num(52)]
BadWeather ==
    [snowfall_in |-> Num(0), snow_depth |-> Num(0), precip_in |-> Num(40),
     rain_in |-> Num(40), sunshine_hrs |-> Num(1), temp_max |-> Num(45)]
WeatherNamed(name) ==
    CASE name = "sunny60" -> NiceWeather
      [] name = "cloudy52" -> OkWeather
      [] name = "rain45" -> BadWeather

CsvRow(year, day, w) ==
    [year |-> year, day |-> day, dow |-> DowOf(year, day),
     snowfall_in |-> w.snowfall_in, snow_depth |-> w.snow_depth,
     precip_in |-> w.precip_in, rain_in |-> w.rain_in,
     sunshine_hrs |-> w.sunshine_hrs, temp_max |-> w.temp_max]

Slots == (ScanYears \X (0..(MaxDays - 1))) \cup {<<PartialYear, 0>>}

\* Every table: each date either has no row or one row with some weather.
CsvTables ==
    { f \in [Slots -> {"sunny60", "cloudy52", "rain45", "norow"}] :
        f[<<PartialYear, 0>>] \in {"sunny60", "norow"} }

\* The rows of a table.
CsvRows(f) ==
    { CsvRow(s[1], s[2], WeatherNamed(f[s])) :
        s \in { t \in Slots : f[t] # "norow" } }

DateKey(r) == r.year * 1000 + r.day

\* df.sort_values('date').reset_index(drop=True)
\* (dates are unique: the i-th row is the one with i - 1 earlier dates)
SortByDate(S) ==
    [i \in 1..Cardinality(S) |->
        CHOOSE r \in S :
            Cardinality({ o \in S : DateKey(o) < DateKey(r) }) = i - 1]

\* Mutation of load_data: Sundays are kept.
load_data_keep_sunday(table) ==
    SortByDate({r \in table : r.year \in {2021, 2022, 2023, 2024, 2025}})

load_data(table) ==
    SortByDate({r \in table : /\ r.year \in {2021, 2022, 2023, 2024, 2025}
                              /\ r.dow < 6})

\* df['year'].unique(): the years in order of first appearance.
RECURSIVE UniqueYears(_)
UniqueYears(rows) ==
    IF rows = <<>> THEN <<>>
    ELSE <<rows[1].year>>
         \o UniqueYears(SelectSeq(Tail(rows), LAMBDA r : r.year # rows[1].year))

\* df[mask].index: the positions of a year's rows, ascending.
RECURSIVE PositionsFrom(_, _, _)
PositionsFrom(rows, year, i) ==
    IF i > Len(rows) THEN <<>>
    ELSE (IF rows[i].year = year THEN <<i>> ELSE <<>>)
         \o PositionsFrom(rows, year, i + 1)
YearIndex(rows, year) == PositionsFrom(rows, year, 1)

\* Mutation of StreakStep: an 'ok' day leaves the counters as they are.
StreakStepNoOkReset(q, nice, bad) ==
    IF q = "nice" THEN [nice |-> nice + 1, bad |-> 0]
    ELSE IF q = "bad" THEN [nice |-> 0, bad |-> bad + 1]
    ELSE [nice |-> nice, bad |-> bad]

\* Mutation of StreakStep: a 'bad' day leaves the nice counter as it is.
StreakStepNoNiceReset(q, nice, bad) ==
    IF q = "nice" THEN [nice |-> nice + 1, bad |-> 0]
    ELSE IF q = "bad" THEN [nice |-> nice, bad |-> bad + 1]
    ELSE [nice |-> 0, bad |-> 0]

\* build_streaks, the counter update of one row
StreakStep(q, nice, bad) ==
    IF q = "nice" THEN [nice |-> nice + 1, bad |-> 0]
    ELSE IF q = "bad" THEN [nice |-> 0, bad |-> bad + 1]
    ELSE [nice |-> 0, bad |-> 0]

\* Mutation of YearStart: the counters are initialised once, before the
\* loop over the years, and so keep their values from one year to the next.
YearStartCarried ==
    [nice |-> nice_count, bad |-> bad_count, qualities |-> qualities]

\* build_streaks, the loop-local state at the top of each year's iteration
YearStart == [nice |-> 0, bad |-> 0, qualities |-> <<>>]

InitStreaks ==
    /\ csv \in CsvTables
    /\ df = <<>> /\ spc = "load" /\ years_left = <<>> /\ idx = <<>>
    /\ nice_count = 0 /\ bad_count = 0 /\ qualities = <<>>
    /\ CIdle /\ HIdle /\ NIdle

\* main(): df = load_data()
LoadData ==
    /\ spc = "load"
    /\ df' = load_data(CsvRows(csv))
    /\ spc' = "begin"
    /\ UNCHANGED <<csv, years_left, idx, nice_count, bad_count, qualities,
                   cvars, hvars, nvars>>

\* build_streaks up to the loop: the quality column and the empty columns
BuildStreaksBegin ==
    /\ spc = "begin"
    /\ df' = [i \in 1..Len(df) |->
                [year |-> df[i].year, day |-> df[i].day, dow |-> df[i].dow,
                 snowfall_in |-> df[i].snowfall_in,
                 snow_depth |-> df[i].snow_depth,
                 precip_in |-> df[i].precip_in, rain_in |-> df[i].rain_in,
                 sunshine_hrs |-> df[i].sunshine_hrs,
                 temp_max |-> df[i].temp_max,
                 weather_quality |-> classify_day_weather(df[i]),
                 nice_streak |-> 0, bad_streak |-> 0,
                 prev_day_quality |-> "None", prev_2day_quality |-> "None"]]
    /\ years_left' = UniqueYears(df)
    /\ spc' = "year"
    /\ UNCHANGED <<csv, idx, nice_count, bad_count, qualities, cvars, hvars,
                   nvars>>

\* for year in df['year'].unique(): the head of one iteration
StartYear ==
    /\ spc = "year" /\ years_left # <<>>
    /\ idx' = YearIndex(df, Head(years_left))
    /\ nice_count' = YearStart.nice
    /\ bad_count' = YearStart.bad
    /\ qualities' = YearStart.qualities
    /\ years_left' = Tail(years_left)
    /\ spc' = "scan"
    /\ UNCHANGED <<csv, df, cvars, hvars, nvars>>

\* Mutation of ScanRow: the row's quality is appended to qualities before
\* the previous qualities are read.
ScanRowAppendFirst ==
    /\ spc = "scan" /\ idx # <<>>
    /\ LET ix == Head(idx)
           q == df[ix].weather_quality
           c == StreakStep(q, nice_count, bad_count)
           quals == Append(qualities, q)
           n == Len(quals)
       IN  /\ nice_count' = c.nice
           /\ bad_count' = c.bad
           /\ df' = [df EXCEPT
                  ![ix].nice_streak = c.nice,
                  ![ix].bad_streak = c.bad,
                  ![ix].prev_day_quality = quals[n],
                  ![ix].prev_2day_quality =
                      IF n >= 2 THEN quals[n - 1] ELSE @]
           /\ qualities' = quals
    /\ idx' = Tail(idx)
    /\ spc' = IF Tail(idx) = <<>> THEN "year" ELSE "scan"
    /\ UNCHANGED <<csv, years_left, cvars, hvars, nvars>>

\* for i, ix in enumerate(idx): one iteration
ScanRow ==
    /\ spc = "scan" /\ idx # <<>>
    /\ LET ix == Head(idx)
           q == df[ix].weather_quality
           c == StreakStep(q, nice_count, bad_count)
           n == Len(qualities)
       IN  /\ nice_count' = c.nice
           /\ bad_count' = c.bad
           /\ df' = [df EXCEPT
                  ![ix].nice_streak = c.nice,
                  ![ix].bad_streak = c.bad,
                  ![ix].prev_day_quality =
                      IF n >= 1 THEN qualities[n] ELSE @,
                  ![ix].prev_2day_quality =
                      IF n >= 2 THEN qualities[n - 1] ELSE @]
           /\ qualities' = Append(qualities, q)
    /\ idx' = Tail(idx)
    /\ spc' = IF Tail(idx) = <<>> THEN "year" ELSE "scan"
    /\ UNCHANGED <<csv, years_left, cvars, hvars, nvars>>

\* return df
BuildStreaksReturn ==
    /\ spc = "year" /\ years_left = <<>>
    /\ spc' = "done"
    /\ UNCHANGED <<csv, df, years_left, idx, nice_count, bad_count, qualities,
                   cvars, hvars, nvars>>

NextStreaks ==
    LoadData \/ BuildStreaksBegin \/ StartYear \/ ScanRow \/ BuildStreaksReturn

SpecStreaks == InitStreaks /\ [][NextStreaks]_vars

-----------------------------------------------------------------------------
(* model_validation: engineer_features and run_holdout_validation          *)
(*                                                                         *)
(* The function is run on two contents of daily_leads_weather.csv at once  *)
(* (runs 1 and 2), so that what the rows of one year do to the result can  *)
(* be compared.  The second table is the first without its rows of 2025,   *)
(* or without its rows of 2026: two tables that agree outside a year have  *)
(* the same table once that year's rows are removed, so whatever each      *)
(* shares with that table they share with each other.                      *)
(* A table holds the first MaxHDays days of seasons 2024 and 2025 and the  *)
(* first day of the 2026 partial season; htab[k] gives, per date, the name *)
(* of its row or "norow".                                                  *)
(* Rolling means are held times 6 (a window has 1, 2 or 3 values).         *)

MaxHDays == 2

Runs == {1, 2}
HSlots == ({2024, 2025} \X (0..(MaxHDays - 1))) \cup {<<2026, 0>>}

\* A row of the merged table: "warm" lacks precip_in, "nosun" lacks
\* sunshine_hrs (and is dropped by dropna), "wet" is complete.
HRow(year, day, name) ==
    CASE name = "warm" ->
           [year |-> year, day |-> day, total_leads |-> 30,
            temp_max |-> Num(60), sunshine_hrs |-> Num(9), precip_in |-> NaN,
            snowfall_in |-> Num(0), snow_depth |-> Num(0), rain_in |-> NaN]
      [] name = "wet" ->
           [year |-> year, day |-> day, total_leads |-> 10,
            temp_max |-> Num(48), sunshine_hrs |-> Num(2), precip_in |-> Num(40),
            snowfall_in |-> Num(6), snow_depth |-> Num(0), rain_in |-> Num(34)]
      [] name = "nosun" ->
           [year |-> year, day |-> day, total_leads |-> 20,
            temp_max |-> Num(50), sunshine_hrs |-> NaN, precip_in |-> Num(0),
            snowfall_in |-> Num(0), snow_depth |-> Num(0), rain_in |-> Num(0)]

HTables == [HSlots -> {"warm", "wet", "nosun", "norow"}]

\* The table f without its rows of one year.
WithoutYear(f, year) ==
    [s \in HSlots |-> IF s[1] = year THEN "norow" ELSE f[s]]

\* pd.read_csv: the rows of a table
HRows(f) ==
    { HRow(s[1], s[2], f[s]) : s \in { t \in HSlots : f[t] # "norow" } }

\* Mutation of FilterYears: the 2026 partial season is kept.
FilterYearsFrom2021(rows) == { r \in rows : r.year >= 2021 }

\* df[df['year'].isin([2021, 2022, 2023, 2024, 2025])]
FilterYears(rows) ==
    { r \in rows : r.year \in {2021, 2022, 2023, 2024, 2025} }

\* df.dropna(subset=['temp_max', 'sunshine_hrs'])
DropNa(rows) ==
    { r \in rows : r.temp_max.tag # "nan" /\ r.sunshine_hrs.tag # "nan" }

\* series.fillna(0)
FillNa0(x) == IF x.tag = "nan" THEN Num(0) ELSE x

Bit(b) == IF b THEN 1 ELSE 0

RECURSIVE SumVals(_)
SumVals(vs) == IF vs = <<>> THEN 0 ELSE Head(vs).val + SumVals(Tail(vs))

\* series.rolling(3, min_periods=1).mean() at position i, times 6: the mean
\* of the non-NaN values among the row and the two before it, NaN if none.
Rolling3(series, i) ==
    LET lo == IF i > 2 THEN i - 2 ELSE 1
        window == SubSeq(series, lo, i)
        obs == SelectSeq(window, LAMBDA v : v.tag = "num")
    IN  IF obs = <<>> THEN NaN ELSE Num((6 * SumVals(obs)) \div Len(obs))

\* model_validation.engineer_features: flags, year_trend, the sort by date
\* and the per-year rolling means
engineer_features(rows) ==
    LET sorted == SortByDate(rows)
        years == { sorted[i].year : i \in 1..Len(sorted) }
        \* df.loc[mask]: the rows of each year, in date order
        masked == [y \in years |-> SelectSeq(sorted, LAMBDA r : r.year = y)]
        temps == [y \in years |->
                     [p \in 1..Len(masked[y]) |-> masked[y][p].temp_max]]
        suns == [y \in years |->
                    [p \in 1..Len(masked[y]) |-> masked[y][p].sunshine_hrs]]
        \* position of row i among the rows of its year
        pos == [i \in 1..Len(sorted) |->
                   Cardinality({ j \in 1..i : sorted[j].year = sorted[i].year })]
    IN  [i \in 1..Len(sorted) |->
            [year |-> sorted[i].year, day |-> sorted[i].day,
             total_leads |-> sorted[i].total_leads,
             temp_max |-> sorted[i].temp_max,
             sunshine_hrs |-> sorted[i].sunshine_hrs,
             precip_in |-> sorted[i].precip_in,
             snowfall_in |-> sorted[i].snowfall_in,
             snow_depth |-> sorted[i].snow_depth,
             rain_in |-> sorted[i].rain_in,
             is_snow |-> Bit(Gt(FillNa0(sorted[i].snowfall_in), 5)
                             \/ Gt(FillNa0(sorted[i].snow_depth), 50)),
             is_rainy |-> Bit(Gt(FillNa0(sorted[i].rain_in), 10)),
             is_sunny |-> Bit(Ge(FillNa0(sorted[i].sunshine_hrs), 8)),
             year_trend |-> sorted[i].year - 2021,
             temp_max_3d_avg |-> Rolling3(temps[sorted[i].year], pos[i]),
             sunshine_3d_avg |->
                 Rolling3(suns[sorted[i].year], pos[i])]]

\* Mutation of TrainRows: the training years run through 2025.
TrainRowsThrough2025(d) ==
    SelectSeq(d, LAMBDA r : r.year \in {2021, 2022, 2023, 2024, 2025})

\* train = df[df['year'].isin([2021, 2022, 2023, 2024])]
TrainRows(d) == SelectSeq(d, LAMBDA r : r.year \in {2021, 2022, 2023, 2024})

\* test = df[df['year'] == 2025]
TestRows(d) == SelectSeq(d, LAMBDA r : r.year = 2025)

\* rows[feature_cols]: the feature columns of a row.  Of the calendar columns
\* (dow, is_weekend, is_saturday, day_of_season, week_num, month: functions
\* of the date) day_of_season is held, and of the raw weather columns that no
\* step of the function reads (temp_mean, precip_in, snowfall_in,
\* wind_max_mph) precip_in and snowfall_in.
FeatureCols(r) ==
    [day_of_season |-> Num(r.day), temp_max |-> r.temp_max,
     sunshine_hrs |-> r.sunshine_hrs, precip_in |-> r.precip_in,
     snowfall_in |-> r.snowfall_in,
     is_snow |-> Num(r.is_snow), is_rainy |-> Num(r.is_rainy),
     is_sunny |-> Num(r.is_sunny),
     temp_max_3d_avg |-> r.temp_max_3d_avg,
     sunshine_3d_avg |-> r.sunshine_3d_avg,
     year_trend |-> Num(r.year_trend)]

\* rows[feature_cols].fillna(0)
FeatureMatrix(rows) ==
    [i \in 1..Len(rows) |->
        [c \in DOMAIN FeatureCols(rows[i]) |-> FillNa0(FeatureCols(rows[i])[c])]]

\* Mutation of X_train: a missing value is filled with the mean of its
\* column over the whole frame, the test year included.
X_train_meanfill(k) ==
    LET known == SelectSeq(hdf[k], LAMBDA r : r.precip_in.tag = "num")
        mean == IF known = <<>> THEN Num(0)
                ELSE Num(SumVals([i \in 1..Len(known) |-> known[i].precip_in])
                         \div Len(known))
    IN  [i \in 1..Len(train[k]) |->
            [c \in DOMAIN FeatureCols(train[k][i]) |->
                IF FeatureCols(train[k][i])[c].tag = "nan"
                THEN mean ELSE FeatureCols(train[k][i])[c]]]

\* X_train = train[feature_cols].fillna(0), y_train = train['total_leads']
X_train(k) == FeatureMatrix(train[k])
y_train(k) == [i \in 1..Len(train[k]) |-> train[k][i].total_leads]
\* X_test = test[feature_cols].fillna(0), y_test = test['total_leads']
X_test(k) == FeatureMatrix(test[k])
y_test(k) == [i \in 1..Len(test[k]) |-> test[k][i].total_leads]

\* GradientBoostingRegressor(..., random_state=42).fit(X, y): with the seed
\* fixed the fitted model is a function of the data it is fitted on, and is
\* held as that data.
Fit(X, y) == [fitted_X |-> X, fitted_y |-> y]

NotFitted == [fitted_X |-> <<>>, fitted_y |-> <<>>]

\* model.predict(X): the vector of predictions, a function of the fitted
\* model and of X, held as these two
Predict(m, X) == [by |-> m, at |-> X]

NotPredicted == [by |-> NotFitted, at |-> <<>>]

\* The holdout metrics (mae, r2, mape, totals) and the weekly table are
\* functions of y_test and y_pred, and are held as these two.
NotWritten == [y_test |-> <<>>, y_pred |-> NotPredicted]

\* Mutation of Check2026: the model is fitted again with the rows of 2026.
Check2026Refit(m, table) ==
    LET rows == { r \in HRows(table) : r.year = 2026 }
        df_2026 == engineer_features(DropNa(rows))
    IN  IF rows = {} \/ df_2026 = <<>>
        THEN [model |-> m, fits |-> 0, pred |-> NotPredicted]
        ELSE [model |-> Fit(m.fitted_X \o FeatureMatrix(df_2026),
                            m.fitted_y \o [i \in 1..Len(df_2026) |->
                                               df_2026[i].total_leads]),
              fits |-> 1,
              pred |-> Predict(m, FeatureMatrix(df_2026))]

\* run_holdout_validation, lines 163-172: df_2026, X_2026 and pred_2026;
\* the model after the check and the number of model.fit calls in it
Check2026(m, table) ==
    LET rows == { r \in HRows(table) : r.year = 2026 }
        df_2026 == engineer_features(DropNa(rows))
    IN  IF rows = {} \/ df_2026 = <<>>
        THEN [model |-> m, fits |-> 0, pred |-> NotPredicted]
        ELSE [model |-> m, fits |-> 0,
              pred |-> Predict(m, FeatureMatrix(df_2026))]

InitHoldout ==
    /\ \E a \in HTables : \E year \in {2025, 2026} :
           htab = <<a, WithoutYear(a, year)>>
    /\ hdf = <<<<>>, <<>>>> /\ train = <<<<>>, <<>>>> /\ test = <<<<>>, <<>>>>
    /\ model = <<NotFitted, NotFitted>> /\ y_pred = <<NotPredicted, NotPredicted>>
    /\ hpc = "read"
    /\ fit_calls = <<0, 0>>
    /\ pred_2026 = <<NotPredicted, NotPredicted>>
    /\ validation = <<NotWritten, NotWritten>>
    /\ CIdle /\ SIdle /\ NIdle

\* lines 63-66: read the table, keep 2021-2025, drop incomplete rows,
\* engineer the features
HoldoutFrame ==
    /\ hpc = "read"
    /\ hdf' = [k \in Runs |->
                  engineer_features(DropNa(FilterYears(HRows(htab[k]))))]
    /\ hpc' = "split"
    /\ UNCHANGED <<htab, train, test, model, y_pred, fit_calls, pred_2026,
                   validation, cvars, svars, nvars>>

\* lines 78-84: the partition by year
HoldoutSplit ==
    /\ hpc = "split"
    /\ train' = [k \in Runs |-> TrainRows(hdf[k])]
    /\ test' = [k \in Runs |-> TestRows(hdf[k])]
    /\ hpc' = "fit"
    /\ UNCHANGED <<htab, hdf, model, y_pred, fit_calls, pred_2026, validation,
                   cvars, svars, nvars>>

\* lines 89-93: model.fit(X_train, y_train)
HoldoutFit ==
    /\ hpc = "fit"
    /\ model' = [k \in Runs |-> Fit(X_train(k), y_train(k))]
    /\ fit_calls' = [k \in Runs |-> fit_calls[k] + 1]
    /\ hpc' = "predict"
    /\ UNCHANGED <<htab, hdf, train, test, y_pred, pred_2026, validation,
                   cvars, svars, nvars>>

\* line 94: y_pred = model.predict(X_test)
HoldoutPredict ==
    /\ hpc = "predict"
    /\ y_pred' = [k \in Runs |-> Predict(model[k], X_test(k))]
    /\ hpc' = "scored"
    /\ UNCHANGED <<htab, hdf, train, test, model, fit_calls, pred_2026,
                   validation, cvars, svars, nvars>>

\* lines 163-172: the 2026 early season check of one run
Holdout2026Check ==
    /\ hpc = "scored"
    /\ model' = [k \in Runs |-> Check2026(model[k], htab[k]).model]
    /\ fit_calls' = [k \in Runs |->
                        fit_calls[k] + Check2026(model[k], htab[k]).fits]
    /\ pred_2026' = [k \in Runs |-> Check2026(model[k], htab[k]).pred]
    /\ hpc' = "checked"
    /\ UNCHANGED <<htab, hdf, train, test, y_pred, validation,
                   cvars, svars, nvars>>

\* lines 193-209: validation_results.json
HoldoutSave ==
    /\ hpc = "checked"
    /\ validation' = [k \in Runs |-> [y_test |-> y_test(k), y_pred |-> y_pred[k]]]
    /\ hpc' = "saved"
    /\ UNCHANGED <<htab, hdf, train, test, model, y_pred, fit_calls, pred_2026,
                   cvars, svars, nvars>>

NextHoldout ==
    \/ HoldoutFrame \/ HoldoutSplit \/ HoldoutFit \/ HoldoutPredict
    \/ Holdout2026Check \/ HoldoutSave

SpecHoldout == InitHoldout /\ [][NextHoldout]_vars

-----------------------------------------------------------------------------
(* Streak claims *)

\* The rows of one year, in the order of df (date order after load_data).
YearRows(year) == SelectSeq(df, LAMBDA r : r.year = year)

DfYears == { df[i].year : i \in 1..Len(df) }

\* C1: within each year, in date order, nice_streak(i) = nice_streak(i-1) + 1
\* on a 'nice' row and 0 otherwise, bad_streak(i) = bad_streak(i-1) + 1 on a
\* 'bad' row and 0 otherwise, both being 0 before the year's first row; an
\* 'ok' row sets both to 0.
C1_StreakRecurrence ==
    spc = "done" =>
        \A y \in DfYears :
            LET rows == YearRows(y)
            IN  \A i \in 1..Len(rows) :
                    LET q == rows[i].weather_quality
                        prevNice == IF i = 1 THEN 0 ELSE rows[i - 1].nice_streak
                        prevBad == IF i = 1 THEN 0 ELSE rows[i - 1].bad_streak
                    IN  /\ rows[i].nice_streak =
                               IF q = "nice" THEN prevNice + 1 ELSE 0
                        /\ rows[i].bad_streak =
                               IF q = "bad" THEN prevBad + 1 ELSE 0
                        /\ q = "ok" =>
                               rows[i].nice_streak = 0 /\ rows[i].bad_streak = 0

C1_Witness ==
    /\ spc = "done"
    /\ \E y \in DfYears :
           LET rows == YearRows(y)
           IN  /\ Len(rows) >= 3
               /\ rows[1].nice_streak = 1 /\ rows[2].nice_streak = 2
               /\ rows[3].weather_quality = "ok" /\ rows[3].nice_streak = 0
    /\ \E y \in DfYears :
           LET rows == YearRows(y)
           IN  /\ Len(rows) >= 2
               /\ rows[1].bad_streak = 1 /\ rows[2].bad_streak = 2

\* build_streaks on the rows of a single year: the columns it gives them.
RECURSIVE ScanAlone(_, _, _, _, _)
ScanAlone(rows, i, nice, bad, quals) ==
    IF i > Len(rows) THEN <<>>
    ELSE LET q == rows[i].weather_quality
             c == StreakStep(q, nice, bad)
             n == Len(quals)
         IN  << [nice_streak |-> c.nice, bad_streak |-> c.bad,
                 prev_day_quality |-> IF n >= 1 THEN quals[n] ELSE "None",
                 prev_2day_quality |->
                     IF n >= 2 THEN quals[n - 1] ELSE "None"] >>
             \o ScanAlone(rows, i + 1, c.nice, c.bad, Append(quals, q))

StreakColumns(r) ==
    [nice_streak |-> r.nice_streak, bad_streak |-> r.bad_streak,
     prev_day_quality |-> r.prev_day_quality,
     prev_2day_quality |-> r.prev_2day_quality]

\* C2: the scan carries no state across years: the streak and previous-quality
\* columns of a year's rows are those build_streaks gives that year's rows
\* alone, and the first row of a year has nice_streak 1 if it is 'nice' and
\* 0 otherwise.
C2_NoStateAcrossYears ==
    spc = "done" =>
        \A y \in DfYears :
            LET rows == YearRows(y)
            IN  /\ [i \in 1..Len(rows) |-> StreakColumns(rows[i])]
                       = ScanAlone(rows, 1, 0, 0, <<>>)
                /\ rows[1].nice_streak =
                       IF rows[1].weather_quality = "nice" THEN 1 ELSE 0

C2_Witness ==
    /\ spc = "done"
    /\ DfYears = {2024, 2025}
    /\ LET last == YearRows(2024)[Len(YearRows(2024))]
           first == YearRows(2025)[1]
       IN  /\ last.nice_streak >= 2
           /\ first.weather_quality = "nice" /\ first.nice_streak = 1
           /\ first.prev_day_quality = "None"

\* The quality of a calendar day.  A day whose row load_data removed (a
\* Sunday) can be read either way: with the quality of its row in the merged
\* table (whole = TRUE) or as a day that is not classified (whole = FALSE).
\* A day without any row is not classified.
QualityOn(year, day, whole) ==
    IF whole
    THEN IF csv[<<year, day>>] = "norow" THEN "none"
         ELSE classify_day_weather(
                  CsvRow(year, day, WeatherNamed(csv[<<year, day>>])))
    ELSE IF \E i \in 1..Len(df) : df[i].year = year /\ df[i].day = day
         THEN df[CHOOSE i \in 1..Len(df) :
                     df[i].year = year /\ df[i].day = day].weather_quality
         ELSE "none"

\* The number of consecutive calendar days ending at (year, day) that are all
\* of quality q.  The season starts at day 0.
RECURSIVE CalendarStreak(_, _, _, _)
CalendarStreak(year, day, q, whole) ==
    IF day < 0 \/ QualityOn(year, day, whole) # q THEN 0
    ELSE 1 + CalendarStreak(year, day - 1, q, whole)

\* C3: nice_streak (bad_streak) of a row is the number of consecutive calendar
\* days ending at the row's date that are all 'nice' ('bad'), also when dates
\* are missing between the rows (under either reading of a removed Sunday).
C3_StreakCountsCalendarDays ==
    spc = "done" =>
        \A i \in 1..Len(df) : \E whole \in BOOLEAN :
            /\ df[i].nice_streak =
                   CalendarStreak(df[i].year, df[i].day, "nice", whole)
            /\ df[i].bad_streak =
                   CalendarStreak(df[i].year, df[i].day, "bad", whole)

-----------------------------------------------------------------------------
(* Holdout claims *)

SplitDone == hpc \in {"fit", "predict", "scored", "checked", "saved"}
FitDone == hpc \in {"predict", "scored", "checked", "saved"}

DateOf(r) == <<r.year, r.day>>
DatesOf(rows) == { DateOf(rows[i]) : i \in 1..Len(rows) }
YearsOf(rows) == { rows[i].year : i \in 1..Len(rows) }

\* C8: every training row has year in 2021..2024, every test row has year
\* 2025, no row is in both sets, and the model is fitted on the training rows
\* only.
C8_PartitionByYear ==
    \A k \in Runs :
        /\ SplitDone =>
               /\ YearsOf(train[k]) \subseteq {2021, 2022, 2023, 2024}
               /\ YearsOf(test[k]) \subseteq {2025}
               /\ DatesOf(train[k]) \cap DatesOf(test[k]) = {}
        /\ FitDone =>
               /\ model[k].fitted_X = FeatureMatrix(train[k])
               /\ model[k].fitted_y =
                      [i \in 1..Len(train[k]) |-> train[k][i].total_leads]
               /\ Len(model[k].fitted_X) =
                      Cardinality({ r \in DropNa(HRows(htab[k])) :
                                      r.year \in {2021, 2022, 2023, 2024} })

C8_Witness ==
    /\ hpc = "scored"
    /\ Len(train[1]) >= 2 /\ Len(test[1]) >= 1
    /\ htab[1][<<2026, 0>>] = "warm"
    /\ \E s \in HSlots : htab[1][s] = "nosun"
    /\ Len(model[1].fitted_X) = Len(train[1])

\* The two tables agree on every row outside the given year.
AgreeOutside(year) ==
    \A s \in HSlots : s[1] # year => htab[1][s] = htab[2][s]

\* C9: for two tables that agree on all rows of 2021..2025 and differ only in
\* their 2026 rows, the run builds the same engineered frame, the same
\* training set, the same test set and the same feature vectors, fits the same
\* model and predicts the same values (the holdout metrics are computed from
\* y_test and y_pred alone); no 2026 row is in the training or the test set.
C9_IndependentOf2026 ==
    /\ AgreeOutside(2026) =>
           /\ hdf[1] = hdf[2]
           /\ train[1] = train[2] /\ test[1] = test[2]
           /\ SplitDone =>
                  /\ X_train(1) = X_train(2) /\ y_train(1) = y_train(2)
                  /\ X_test(1) = X_test(2) /\ y_test(1) = y_test(2)
           /\ model[1] = model[2]
           /\ y_pred[1] = y_pred[2]
    /\ \A k \in Runs :
           2026 \notin YearsOf(hdf[k]) \cup YearsOf(train[k]) \cup YearsOf(test[k])

C9_Witness ==
    /\ hpc = "scored"
    /\ AgreeOutside(2026)
    /\ htab[1][<<2026, 0>>] = "wet" /\ htab[2][<<2026, 0>>] = "norow"
    /\ Len(train[1]) >= 1 /\ Len(test[1]) >= 1
    /\ y_pred[1] = y_pred[2]

\* C10: for two tables that agree on all rows of 2021..2024 and differ only in
\* their 2025 rows, the feature vectors (the rolling means included) and the
\* targets of the training rows are identical, and so is the fitted model.
C10_TrainingIndependentOfTestYear ==
    AgreeOutside(2025) =>
        /\ train[1] = train[2]
        /\ SplitDone => X_train(1) = X_train(2) /\ y_train(1) = y_train(2)
        /\ model[1] = model[2]

C10_Witness ==
    /\ hpc = "scored"
    /\ AgreeOutside(2025)
    /\ \E s \in HSlots : s[1] = 2025 /\ htab[1][s] = "wet"
    /\ Len(test[1]) >= 1 /\ test[2] = <<>>
    /\ Len(train[1]) >= 2
    /\ \E i \in 1..Len(train[1]) : train[1][i].precip_in = NaN
    /\ model[1] = model[2]

-----------------------------------------------------------------------------
(* Classifier claims *)

WeatherFields ==
    {"snowfall_in", "snow_depth", "precip_in", "rain_in", "sunshine_hrs",
     "temp_max"}

\* The label of the first rule of a priority list that matches.
FirstMatch(rules, otherwise) ==
    IF \E i \in 1..Len(rules) : rules[i].m
    THEN rules[CHOOSE i \in 1..Len(rules) :
                  rules[i].m /\ \A j \in 1..(i - 1) : ~rules[j].m].l
    ELSE otherwise

\* A rule "field > c" matches a record whose field holds a number above c.
Above(x, c) == IsNum(x) /\ x.val > c
AtLeast(x, c) == IsNum(x) /\ x.val >= c

ConditionRules(r) ==
    << [m |-> Above(r.snowfall_in, 10) \/ Above(r.snow_depth, 100), l |-> "Snow"],
       [m |-> Above(r.rain_in, 25), l |-> "Rain"],
       [m |-> Above(r.rain_in, 5), l |-> "Light Rain"],
       [m |-> AtLeast(r.sunshine_hrs, 8), l |-> "Sunny"],
       [m |-> AtLeast(r.sunshine_hrs, 4), l |-> "Partly Cloudy"] >>

NoSnow(r) == ~(Above(r.snowfall_in, 10) \/ Above(r.snow_depth, 100))

\* The value the quality rules are stated over: a missing field (absent,
\* None or NaN) takes its default, a present one is used unchanged.
FieldOrDefault(x, default) == IF IsNum(x) THEN x.val ELSE default

QualityRules(r) ==
    LET snow     == FieldOrDefault(r.snowfall_in, 0)
        depth    == FieldOrDefault(r.snow_depth, 0)
        precip   == FieldOrDefault(r.precip_in, 0)
        sunshine == FieldOrDefault(r.sunshine_hrs, 0)
        temp     == FieldOrDefault(r.temp_max, 50)
    IN  << [m |-> snow > 10 \/ depth > 100, l |-> "bad"],
           [m |-> precip > 20, l |-> "bad"],
           [m |-> sunshine >= 7 /\ temp >= 55, l |-> "nice"],
           [m |-> sunshine >= 5 /\ temp >= 50, l |-> "ok"],
           [m |-> sunshine < 3 \/ temp < 42, l |-> "bad"] >>

\* C4: classify_day_weather returns the label of the first matching quality
\* rule, a missing field taking its default (snowfall 0, precipitation 0,
\* snow depth 0, sunshine 0, temp_max 50) and a present field, a 0 included,
\* being used unchanged.
C4_QualityFirstRuleWithDefaults ==
    /\ quality # "unset" => quality = FirstMatch(QualityRules(row), "ok")
    /\ mv_quality # "unset" => mv_quality = FirstMatch(QualityRules(row), "ok")

\* C5: classify_weather_condition returns the label of the first matching
\* condition rule; with no snow, rain of exactly 0.25 in gives Light Rain and
\* any rain above 0.25 in gives Rain.
C5_ConditionFirstRule ==
    cond # "unset" =>
        /\ cond = FirstMatch(ConditionRules(row), "Cloudy/Overcast")
        /\ NoSnow(row) /\ row.rain_in = Num(25) => cond = "Light Rain"
        /\ NoSnow(row) /\ IsNum(row.rain_in) /\ row.rain_in.val > 25
               => cond = "Rain"

C5_Witness ==
    /\ cond = "Light Rain" /\ row.rain_in = Num(25)
    /\ IsNum(row.sunshine_hrs) /\ row.sunshine_hrs.val >= 8

\* A record in which only temp_max is present.
OnlyTempMax(r) ==
    /\ IsNum(r.temp_max)
    /\ \A k \in WeatherFields \ {"temp_max"} : ~IsNum(r[k])

\* C6: a record with only temp_max present is classified Cloudy/Overcast by
\* classify_weather_condition and bad by classify_day_weather.
C6_OnlyTempMaxIsOvercastAndBad ==
    OnlyTempMax(row) =>
        /\ cond # "unset" => cond = "Cloudy/Overcast"
        /\ quality # "unset" => quality = "bad"

\* C7: both classifiers are total: whatever fields are present or missing,
\* each returns one label of its closed set and raises no error.
C7_ClassifiersTotal ==
    /\ cond # "unset" => cond \in ConditionLabels
    /\ quality # "unset" => quality \in QualityLabels
    /\ mv_quality # "unset" => mv_quality \in QualityLabels

C7_Witness ==
    /\ \A k \in WeatherFields : row[k] = Absent
    /\ cond = "Cloudy/Overcast" /\ quality = "bad" /\ mv_quality = "bad"

-----------------------------------------------------------------------------
(* The merged table daily_leads_weather.csv as lawn_lead_prediction.main   *)
(* writes it: per date the lead counts and calendar columns of             *)
(* aggregate_daily and, left-merged, the weather of the archive.  A row is *)
(* named by the kind of day it records.                                    *)

\* Lead counts and weather of the kinds of day.
DayKind(name) ==
    CASE name = "hot60" ->
           [total_leads |-> 30, dm_leads |-> 10, organic_leads |-> 20,
            temp_max |-> Num(60), sunshine_hrs |-> Num(10),
            precip_in |-> Num(0), snowfall_in |-> Num(0),
            snow_depth |-> Num(0), rain_in |-> Num(0)]
      [] name = "cold40" ->
           [total_leads |-> 10, dm_leads |-> 4, organic_leads |-> 6,
            temp_max |-> Num(40), sunshine_hrs |-> Num(2),
            precip_in |-> Num(40), snowfall_in |-> Num(0),
            snow_depth |-> Num(0), rain_in |-> Num(40)]
      [] name = "mild52" ->
           [total_leads |-> 24, dm_leads |-> 6, organic_leads |-> 18,
            temp_max |-> Num(52), sunshine_hrs |-> Num(6),
            precip_in |-> NaN, snowfall_in |-> Num(0),
            snow_depth |-> NaN, rain_in |-> NaN]
      [] name = "nosun38" ->
           [total_leads |-> 20, dm_leads |-> 0, organic_leads |-> 20,
            temp_max |-> Num(38), sunshine_hrs |-> NaN,
            precip_in |-> Num(0), snowfall_in |-> Num(0),
            snow_depth |-> Num(0), rain_in |-> Num(0)]
      [] name = "snow30" ->
           [total_leads |-> 5, dm_leads |-> 1, organic_leads |-> 4,
            temp_max |-> Num(30), sunshine_hrs |-> Num(3),
            precip_in |-> Num(30), snowfall_in |-> Num(300),
            snow_depth |-> Num(400), rain_in |-> Num(0)]

\* date.isocalendar().week: Feb 15 lies in ISO week 7 in 2023..2026
WeekNum(year, day) == 7 + ((Feb15Dow(year) + day) \div 7)

\* aggregate_daily: the calendar columns of a date (day is the date's offset
\* from Feb 15 and with year names the date; day_of_season is the same offset)
CalendarColumns(year, day) ==
    [year |-> year, day |-> day, dow |-> DowOf(year, day),
     week_num |-> WeekNum(year, day), day_of_season |-> day]

\* The record r with the columns of s added (a column of both takes s's value).
Extend(r, s) ==
    [k \in (DOMAIN r) \cup (DOMAIN s) |-> IF k \in DOMAIN s THEN s[k] ELSE r[k]]

MergedRow(year, day, name) == Extend(CalendarColumns(year, day), DayKind(name))

\* The rows of a table f: date -> kind of day or "norow".
MergedRows(f) ==
    { MergedRow(s[1], s[2], f[s]) : s \in { t \in DOMAIN f : f[t] # "norow" } }

Range(seq) == { seq[i] : i \in 1..Len(seq) }

FullYears == {2021, 2022, 2023, 2024, 2025}

\* frame.dropna(subset=['temp_max', 'sunshine_hrs']), the order kept
DropNaRows(frame) ==
    SelectSeq(frame, LAMBDA r : r.temp_max.tag # "nan"
                                /\ r.sunshine_hrs.tag # "nan")

\* Mutation of YearRolling: the window runs over the whole frame, not over
\* the rows of one year.
YearRollingNoMask(frame, col, i) ==
    Rolling3([p \in 1..Len(frame) |-> frame[p][col]], i)

\* df.loc[mask, col].rolling(3, min_periods=1).mean() for the row at position
\* i of the frame: the window runs over the rows of i's year in frame order.
YearRolling(frame, col, i) ==
    LET masked == SelectSeq(frame, LAMBDA r : r.year = frame[i].year)
        series == [p \in 1..Len(masked) |-> masked[p][col]]
        pos == Cardinality({ j \in 1..i : frame[j].year = frame[i].year })
    IN  Rolling3(series, pos)

\* lawn_lead_prediction.engineer_features, lines 584-587: the added flags
WeatherFlags(r) ==
    [is_snow |-> Bit(Gt(FillNa0(r.snowfall_in), 5)
                     \/ Gt(FillNa0(r.snow_depth), 50)),
     is_rainy |-> Bit(Gt(FillNa0(r.rain_in), 10)),
     is_sunny |-> Bit(Ge(FillNa0(r.sunshine_hrs), 8)),
     year_trend |-> r.year - 2021]

\* Mutation of lp_engineer_features: the sort by date is left out.
lp_engineer_features_unsorted(frame) ==
    LET flagged == [i \in 1..Len(frame) |-> Extend(frame[i], WeatherFlags(frame[i]))]
    IN  [i \in 1..Len(flagged) |->
            Extend(flagged[i],
                   [temp_max_3d_avg |-> YearRolling(flagged, "temp_max", i),
                    sunshine_3d_avg |->
                        YearRolling(flagged, "sunshine_hrs", i)])]

\* lawn_lead_prediction.engineer_features: a copy of the frame with the
\* flags and year_trend added, sorted by date, and the per-year rolling means
lp_engineer_features(frame) ==
    LET flagged == [i \in 1..Len(frame) |-> Extend(frame[i], WeatherFlags(frame[i]))]
        sorted == SortByDate(Range(flagged))
    IN  [i \in 1..Len(sorted) |->
            Extend(sorted[i],
                   [temp_max_3d_avg |-> YearRolling(sorted, "temp_max", i),
                    sunshine_3d_avg |->
                        YearRolling(sorted, "sunshine_hrs", i)])]

-----------------------------------------------------------------------------
(* Chronological cross-validation: TimeSeriesSplit(n_splits=5) under       *)
(* cross_val_score, as train_and_evaluate (called by                       *)
(* build_prediction_model) and rebuild_model_with_momentum run it.         *)
(* The table holds the first days of seasons 2024 and 2025, up to          *)
(* MaxCVDays each, stored in one of several orders.                        *)

MaxCVDays == 6

n_splits == 5

StoredOrders == {"by_date", "latest_first", "latest_year_first"}

OrderKey(r, order) ==
    CASE order = "by_date" -> DateKey(r)
      [] order = "latest_first" -> 0 - DateKey(r)
      [] order = "latest_year_first" -> (0 - r.year) * 1000 + r.day

\* The rows of S stored in the given order.
Arrange(S, order) ==
    [i \in 1..Cardinality(S) |->
        CHOOSE r \in S :
            Cardinality({ o \in S : OrderKey(o, order) < OrderKey(r, order) })
                = i - 1]

\* TimeSeriesSplit.split on n samples: fold k of n_splits, as sets of
\* positions 1..n.  test_size = n // (n_splits + 1); the k-th test block
\* starts after position n - n_splits * test_size + (k - 1) * test_size.
TimeSeriesFold(n, k) ==
    LET test_size == n \div (n_splits + 1)
        test_start == n - n_splits * test_size + (k - 1) * test_size
    IN  [train |-> 1..test_start,
         test |-> (test_start + 1)..(test_start + test_size)]

\* TimeSeriesSplit.split raises ValueError when n_splits + 1 > n_samples
TooFewSamples(n) == n_splits + 1 > n

InitCV ==
    /\ \E n24 \in 0..MaxCVDays, n25 \in 0..MaxCVDays,
          first \in {"hot60", "nosun38"}, order \in StoredOrders :
           cv_in = Arrange(
               { MergedRow(2024, d, IF d = 0 THEN first ELSE "hot60") :
                     d \in 0..(n24 - 1) }
               \cup { MergedRow(2025, d, "cold40") : d \in 0..(n25 - 1) },
               order)
    /\ cv_path = "none" /\ cv_X = <<>> /\ cv_label = "none"
    /\ cv_folds = <<>> /\ cv_fitted = <<>> /\ kpc = "start"
    /\ CIdle /\ SIdle /\ HIdle /\ FIdle /\ LIdle /\ DIdle

\* build_prediction_model, lines 525-548: the frame handed to
\* train_and_evaluate
CVFrameLawn ==
    /\ kpc = "start"
    /\ cv_path' = "lawn"
    /\ cv_X' = DropNaRows(lp_engineer_features(
                   SelectSeq(cv_in, LAMBDA r : r.year \in FullYears)))
    /\ cv_label' = "first"
    /\ kpc' = "split"
    /\ UNCHANGED <<cv_in, cv_folds, cv_fitted, cvars, svars, hvars, fvars, lvars,
                   dvars>>

\* main and rebuild_model_with_momentum, lines 358-359: df = load_data() and
\* dw = df.dropna(...); normalize_leads, build_streaks and the feature lines
\* add columns and leave the rows and their order as they are
CVFrameMomentum ==
    /\ kpc = "start"
    /\ cv_path' = "momentum"
    /\ cv_X' = DropNaRows(load_data(Range(cv_in)))
    /\ cv_label' = "first"
    /\ kpc' = "split"
    /\ UNCHANGED <<cv_in, cv_folds, cv_fitted, cvars, svars, hvars, fvars, lvars,
                   dvars>>

\* cross_val_score: the next fold of tscv.split(X)
CVSplit ==
    /\ kpc = "split" /\ ~TooFewSamples(Len(cv_X))
    /\ cv_folds' = Append(cv_folds, TimeSeriesFold(Len(cv_X), Len(cv_folds) + 1))
    /\ kpc' = IF Len(cv_folds) + 1 = n_splits THEN "fit" ELSE "split"
    /\ UNCHANGED <<cv_in, cv_path, cv_X, cv_label, cv_fitted,
                   cvars, svars, hvars, fvars, lvars, dvars>>

\* cross_val_score: tscv.split(X) raises ValueError
CVSplitError ==
    /\ kpc = "split" /\ TooFewSamples(Len(cv_X))
    /\ kpc' = "error"
    /\ UNCHANGED <<cv_in, cv_path, cv_X, cv_label, cv_folds, cv_fitted,
                   cvars, svars, hvars, fvars, lvars, dvars>>

\* model.fit(X, y) on all rows; then the caller's second cross-validation
\* (organic leads; the model with momentum features) on the same rows
CVFit ==
    /\ kpc = "fit"
    /\ cv_fitted' = Append(cv_fitted, 1..Len(cv_X))
    /\ IF cv_label = "first"
       THEN cv_label' = "second" /\ cv_folds' = <<>> /\ kpc' = "split"
       ELSE cv_label' = cv_label /\ cv_folds' = cv_folds /\ kpc' = "done"
    /\ UNCHANGED <<cv_in, cv_path, cv_X, cvars, svars, hvars, fvars, lvars, dvars>>

NextCV == CVFrameLawn \/ CVFrameMomentum \/ CVSplit \/ CVSplitError \/ CVFit

SpecCV == InitCV /\ [][NextCV]_vars

(* Cross-validation claims *)

\* The rows are stored in date order.
StoredByDate(frame) ==
    \A i, j \in 1..Len(frame) : i < j => DateKey(frame[i]) < DateKey(frame[j])

\* C11: in every fold of the 5-split chronological cross-validation, on
\* either path, every date of the evaluation block is strictly later than
\* every date of the fold's training block, whatever the order the table is
\* stored in; each fold has a training and an evaluation block.
C11_EvaluationAfterTraining ==
    \A f \in 1..Len(cv_folds) :
        /\ cv_folds[f].train # {} /\ cv_folds[f].test # {}
        /\ cv_folds[f].train \cup cv_folds[f].test \subseteq 1..Len(cv_X)
        /\ \A i \in cv_folds[f].train, j \in cv_folds[f].test :
               DateKey(cv_X[i]) < DateKey(cv_X[j])

C11_Witness ==
    /\ kpc = "done" /\ cv_path = "lawn"
    /\ ~StoredByDate(cv_in)
    /\ Len(cv_folds) = n_splits
    /\ Cardinality(cv_folds[1].test) = 2
    /\ {2024, 2025} \subseteq { cv_X[i].year : i \in 1..Len(cv_X) }

-----------------------------------------------------------------------------
(* The feature functions of the three scripts, applied in turn to one      *)
(* merged table: engineer_features of lawn_lead_prediction (as             *)
(* build_prediction_model calls it), engineer_features of model_validation *)
(* (as run_holdout_validation calls it), and main of                       *)
(* weather_momentum_analysis: load_data, normalize_leads, build_streaks,   *)
(* the pop days of analyze_pop_and_regression and the features of          *)
(* rebuild_model_with_momentum.                                            *)
(* The table holds the first MaxFDays days of season 2024 (Thu Feb 15,     *)
(* Fri, Sat, Sun, ...) and Sat Feb 15 and Mon Feb 17 of season 2025.       *)
(* A call is held as the argument object after the call and the object     *)
(* returned.  Quotients are held as numerator and denominator.             *)

MaxFDays == 4

FSlots == ({2024} \X (0..(MaxFDays - 1))) \cup {<<2025, 0>>, <<2025, 2>>}

FTables ==
    { f \in [FSlots -> {"hot60", "cold40", "mild52", "nosun38", "norow"}] :
        /\ \A s \in FSlots : s[1] = 2024 => f[s] # "mild52"
        /\ f[<<2025, 0>>] \in {"cold40", "mild52"}
        /\ f[<<2025, 2>>] \in {"hot60", "norow"} }

RECURSIVE SumField(_, _)
SumField(frame, col) ==
    IF frame = <<>> THEN 0 ELSE Head(frame)[col] + SumField(Tail(frame), col)

\* Mutation of EngineerFeaturesCall: the columns are written to the frame
\* passed in.
EngineerFeaturesInPlace(frame) ==
    [arg |-> lp_engineer_features(frame), ret |-> lp_engineer_features(frame)]

\* engineer_features(full_years): df = df.copy() first, so every assignment
\* goes to the copy
EngineerFeaturesCall(frame) ==
    [arg |-> frame, ret |-> lp_engineer_features(frame)]

\* normalize_leads: the baseline of each (year, week_num) is the mean of
\* total_leads over its weekday rows; the left merge gives every row its
\* key's baseline, and a row whose key has none the mean over all rows
normalize_leads(frame) ==
    [i \in 1..Len(frame) |->
        LET r == frame[i]
            weekday_data == SelectSeq(frame, LAMBDA o : o.dow < 5)
            mine == SelectSeq(weekday_data,
                        LAMBDA o : o.year = r.year /\ o.week_num = r.week_num)
            week_baseline ==
                IF mine # <<>>
                THEN [num |-> SumField(mine, "total_leads"), den |-> Len(mine)]
                ELSE [num |-> SumField(frame, "total_leads"), den |-> Len(frame)]
        IN  Extend(r,
                [week_baseline |-> week_baseline,
                 leads_vs_baseline |->
                     [num |-> (r.total_leads * week_baseline.den
                               - week_baseline.num) * 100,
                      den |-> week_baseline.num],
                 leads_ratio |->
                     [num |-> r.total_leads * week_baseline.den,
                      den |-> week_baseline.num]])]

\* normalize_leads(df): df = df.copy(), and merge returns a new frame
NormalizeLeadsCall(frame) == [arg |-> frame, ret |-> normalize_leads(frame)]

\* build_streaks as a function of the frame: the quality column, and for
\* each year the scan of its rows from fresh counters
build_streaks(frame) ==
    LET classified ==
            [i \in 1..Len(frame) |->
                Extend(frame[i],
                       [weather_quality |-> classify_day_weather(frame[i])])]
    IN  [i \in 1..Len(frame) |->
            LET ofYear == SelectSeq(classified,
                              LAMBDA r : r.year = classified[i].year)
                pos == Cardinality({ j \in 1..i :
                                       classified[j].year = classified[i].year })
            IN  Extend(classified[i],
                       ScanAlone(ofYear, 1, YearStart.nice, YearStart.bad,
                                 YearStart.qualities)[pos])]

\* Mutation of BuildStreaksCall: the columns are written to the frame
\* passed in.
BuildStreaksInPlace(frame) ==
    [arg |-> build_streaks(frame), ret |-> build_streaks(frame)]

\* build_streaks(df): df = df.copy() first
BuildStreaksCall(frame) == [arg |-> frame, ret |-> build_streaks(frame)]

\* analyze_pop_and_regression, lines 200-206: the pop days
PopDays(frame) ==
    LET weekdays == SelectSeq(frame, LAMBDA r : r.dow < 5)
    IN  SelectSeq(weekdays, LAMBDA r : /\ r.weather_quality = "nice"
                                       /\ r.prev_day_quality = "bad")

\* quality_map with .fillna(1): an unmapped value (None) becomes 1
QualityNum(q) ==
    CASE q = "nice" -> 2
      [] q = "ok" -> 1
      [] q = "bad" -> 0
      [] OTHER -> 1

\* series.shift(1) over the rows of i's year: the value of the row before,
\* NaN on the year's first row
YearShift(frame, col, i) ==
    LET before == { j \in 1..(i - 1) : frame[j].year = frame[i].year }
    IN  IF before = {} THEN NaN
        ELSE frame[CHOOSE j \in before : \A o \in before : o <= j][col]

\* a - b.fillna(a) for two float cells, a not NaN
MinusFilled(a, b) == IF b.tag = "nan" THEN Num(0) ELSE Num(a.val - b.val)

\* Mutation of MomentumFeatures: the pop-day flag ignores the previous day.
MomentumFeaturesAnyNice(frame, i) ==
    LET r == frame[i]
    IN  [temp_max_3d_avg |-> YearRolling(frame, "temp_max", i),
         sunshine_3d_avg |-> YearRolling(frame, "sunshine_hrs", i),
         temp_max_prev |-> YearShift(frame, "temp_max", i),
         sunshine_prev |-> YearShift(frame, "sunshine_hrs", i),
         temp_change_1d |->
             MinusFilled(r.temp_max, YearShift(frame, "temp_max", i)),
         sunshine_change_1d |->
             MinusFilled(r.sunshine_hrs, YearShift(frame, "sunshine_hrs", i)),
         weather_quality_num |-> QualityNum(r.weather_quality),
         prev_quality_num |-> QualityNum(r.prev_day_quality),
         is_pop_day |-> Bit(r.weather_quality = "nice")]

\* rebuild_model_with_momentum, lines 367-389: the rolling, previous-day,
\* change, quality and pop-day columns of row i
MomentumFeatures(frame, i) ==
    LET r == frame[i]
    IN  [temp_max_3d_avg |-> YearRolling(frame, "temp_max", i),
         sunshine_3d_avg |-> YearRolling(frame, "sunshine_hrs", i),
         temp_max_prev |-> YearShift(frame, "temp_max", i),
         sunshine_prev |-> YearShift(frame, "sunshine_hrs", i),
         temp_change_1d |->
             MinusFilled(r.temp_max, YearShift(frame, "temp_max", i)),
         sunshine_change_1d |->
             MinusFilled(r.sunshine_hrs, YearShift(frame, "sunshine_hrs", i)),
         weather_quality_num |-> QualityNum(r.weather_quality),
         prev_quality_num |-> QualityNum(r.prev_day_quality),
         is_pop_day |-> Bit(r.weather_quality = "nice"
                            /\ r.prev_day_quality = "bad")]

\* rebuild_model_with_momentum, lines 358-389: dw
rebuild_features(frame) ==
    LET kept == DropNaRows(frame)
        flagged == [i \in 1..Len(kept) |-> Extend(kept[i], WeatherFlags(kept[i]))]
    IN  [i \in 1..Len(flagged) |->
            Extend(flagged[i], MomentumFeatures(flagged, i))]

NoCall == [arg |-> <<>>, ret |-> <<>>]

InitFeatures ==
    /\ ftab \in FTables
    /\ lp_full = NoCall /\ mv_full = <<>> /\ mdf = <<>> /\ pop_days = <<>>
    /\ dw = <<>> /\ fpc = "lawn"
    /\ CIdle /\ SIdle /\ HIdle /\ KIdle /\ LIdle /\ DIdle

\* build_prediction_model, lines 525-529: full_years = engineer_features(...)
\* (main hands it the merged table, which aggregate_daily sorted by date)
LawnEngineer ==
    /\ fpc = "lawn"
    /\ lp_full' = EngineerFeaturesCall(
                      SelectSeq(SortByDate(MergedRows(ftab)),
                                LAMBDA r : r.year \in FullYears))
    /\ fpc' = "validation"
    /\ UNCHANGED <<ftab, mv_full, mdf, pop_days, dw,
                   cvars, svars, hvars, kvars, lvars, dvars>>

\* run_holdout_validation, lines 63-66
ValidationEngineer ==
    /\ fpc = "validation"
    /\ mv_full' = engineer_features(DropNa(FilterYears(MergedRows(ftab))))
    /\ fpc' = "load"
    /\ UNCHANGED <<ftab, lp_full, mdf, pop_days, dw,
                   cvars, svars, hvars, kvars, lvars, dvars>>

\* weather_momentum_analysis.main: df = load_data()
MomentumLoad ==
    /\ fpc = "load"
    /\ mdf' = << load_data(MergedRows(ftab)) >>
    /\ fpc' = "normalize"
    /\ UNCHANGED <<ftab, lp_full, mv_full, pop_days, dw,
                   cvars, svars, hvars, kvars, lvars, dvars>>

\* main: df = normalize_leads(df)
MomentumNormalize ==
    /\ fpc = "normalize"
    /\ LET call == NormalizeLeadsCall(mdf[1])
       IN  mdf' = << call.arg, call.ret >>
    /\ fpc' = "streaks"
    /\ UNCHANGED <<ftab, lp_full, mv_full, pop_days, dw,
                   cvars, svars, hvars, kvars, lvars, dvars>>

\* main: df = build_streaks(df)
MomentumStreaks ==
    /\ fpc = "streaks"
    /\ LET call == BuildStreaksCall(mdf[2])
       IN  mdf' = << mdf[1], call.arg, call.ret >>
    /\ fpc' = "pop"
    /\ UNCHANGED <<ftab, lp_full, mv_full, pop_days, dw,
                   cvars, svars, hvars, kvars, lvars, dvars>>

\* main: analyze_pop_and_regression(df), its selection of the pop days
MomentumPop ==
    /\ fpc = "pop"
    /\ pop_days' = PopDays(mdf[3])
    /\ fpc' = "rebuild"
    /\ UNCHANGED <<ftab, lp_full, mv_full, mdf, dw,
                   cvars, svars, hvars, kvars, lvars, dvars>>

\* main: rebuild_model_with_momentum(df), its feature frame
MomentumRebuild ==
    /\ fpc = "rebuild"
    /\ dw' = rebuild_features(mdf[3])
    /\ fpc' = "done"
    /\ UNCHANGED <<ftab, lp_full, mv_full, mdf, pop_days,
                   cvars, svars, hvars, kvars, lvars, dvars>>

NextFeatures ==
    \/ LawnEngineer \/ ValidationEngineer \/ MomentumLoad \/ MomentumNormalize
    \/ MomentumStreaks \/ MomentumPop \/ MomentumRebuild

SpecFeatures == InitFeatures /\ [][NextFeatures]_vars

(* Feature claims *)

FeaturesDone == fpc = "done"

\* The rows of a frame that precede row i in date order within i's year.
EarlierInYear(frame, i) ==
    { j \in 1..Len(frame) : /\ frame[j].year = frame[i].year
                            /\ DateKey(frame[j]) < DateKey(frame[i]) }

\* Row i and the (at most two) latest rows before it in its year.
WindowOf(frame, i) ==
    {i} \cup { j \in EarlierInYear(frame, i) :
                 Cardinality({ k \in EarlierInYear(frame, i) :
                                 DateKey(frame[k]) > DateKey(frame[j]) }) < 2 }

RECURSIVE SumOver(_, _, _)
SumOver(frame, rows, col) ==
    IF rows = {} THEN 0
    ELSE LET j == CHOOSE x \in rows : TRUE
         IN  frame[j][col].val + SumOver(frame, rows \ {j}, col)

\* The mean (times 6) of the values present in the window of row i.
WindowMean(frame, i, col) ==
    LET present == { j \in WindowOf(frame, i) : IsNum(frame[j][col]) }
    IN  IF present = {} THEN NaN
        ELSE Num((6 * SumOver(frame, present, col)) \div Cardinality(present))

RollingAsClaimed(frame) ==
    \A i \in 1..Len(frame) :
        /\ frame[i].temp_max_3d_avg = WindowMean(frame, i, "temp_max")
        /\ frame[i].sunshine_3d_avg = WindowMean(frame, i, "sunshine_hrs")
        /\ EarlierInYear(frame, i) = {} =>
               /\ IsNum(frame[i].temp_max) =>
                      frame[i].temp_max_3d_avg = Num(6 * frame[i].temp_max.val)
               /\ IsNum(frame[i].sunshine_hrs) =>
                      frame[i].sunshine_3d_avg
                          = Num(6 * frame[i].sunshine_hrs.val)
               /\ ~IsNum(frame[i].temp_max) => frame[i].temp_max_3d_avg = NaN

\* C12: in each of the three feature frames, temp_max_3d_avg and
\* sunshine_3d_avg of a row are the mean of the values present in that row
\* and in at most the two preceding rows of the same year in date order; on
\* the first row of a year the average is the row's own value; no value of
\* another year enters a window.
C12_RollingWithinYear ==
    /\ RollingAsClaimed(lp_full.ret)
    /\ RollingAsClaimed(mv_full)
    /\ RollingAsClaimed(dw)

C12_Witness ==
    /\ FeaturesDone
    /\ Len(lp_full.ret) = 6 /\ Len(mv_full) = 6 /\ Len(dw) >= 4
    /\ lp_full.ret[1].temp_max = Num(40)
    /\ lp_full.ret[3].temp_max_3d_avg = Num(320)
    /\ lp_full.ret[4].temp_max_3d_avg = Num(360)
    /\ mv_full[4].temp_max_3d_avg = Num(360)
    /\ lp_full.ret[5].year = 2025 /\ lp_full.ret[5].temp_max_3d_avg = Num(240)
    /\ \E i \in 1..Len(dw) : /\ dw[i].year = 2025
                             /\ EarlierInYear(dw, i) = {}
                             /\ dw[i].temp_max_3d_avg = Num(240)

\* Row i is the first row of its year in the frame.
FirstOfYear(frame, i) == \A j \in 1..(i - 1) : frame[j].year # frame[i].year

\* C13: on the first row of each year the momentum fields take their
\* no-prior-day values: in the frame of build_streaks prev_day_quality and
\* prev_2day_quality are null, and in the feature frame of
\* rebuild_model_with_momentum they are null, prev_quality_num is 1,
\* temp_change_1d and sunshine_change_1d are 0 and is_pop_day is 0.
C13_FirstRowNoPriorDay ==
    /\ Len(mdf) = 3 =>
           \A i \in 1..Len(mdf[3]) :
               FirstOfYear(mdf[3], i) =>
                   /\ mdf[3][i].prev_day_quality = "None"
                   /\ mdf[3][i].prev_2day_quality = "None"
    /\ \A i \in 1..Len(dw) :
           FirstOfYear(dw, i) =>
               /\ dw[i].prev_day_quality = "None"
               /\ dw[i].prev_2day_quality = "None"
               /\ dw[i].prev_quality_num = 1
               /\ dw[i].temp_change_1d = Num(0)
               /\ dw[i].sunshine_change_1d = Num(0)
               /\ dw[i].is_pop_day = 0

NiceAfterBad(r) == r.weather_quality = "nice" /\ r.prev_day_quality = "bad"

\* C14: is_pop_day is 1 exactly on the rows whose weather_quality is 'nice'
\* and whose prev_day_quality is 'bad' and 0 on every other row; the pop days
\* of analyze_pop_and_regression are the weekday rows with the same condition.
C14_PopDay ==
    /\ \A i \in 1..Len(dw) :
           dw[i].is_pop_day = IF NiceAfterBad(dw[i]) THEN 1 ELSE 0
    /\ fpc \in {"rebuild", "done"} =>
           Range(pop_days)
               = { r \in Range(mdf[3]) : r.dow < 5 /\ NiceAfterBad(r) }

C14_Witness ==
    /\ FeaturesDone
    /\ \E i \in 1..Len(dw) : dw[i].is_pop_day = 1 /\ dw[i].dow = 5
    /\ \E i \in 1..Len(dw) : dw[i].is_pop_day = 1 /\ dw[i].dow < 5
    /\ \E i \in 1..Len(dw) :
           dw[i].is_pop_day = 0 /\ dw[i].weather_quality = "nice"
    /\ Len(pop_days) = 1

\* Every column of every row of the frame before is in the row of the same
\* date of the frame after, with the same value; the rows are as many.
ColumnsKept(before, after) ==
    /\ Len(after) = Len(before)
    /\ \A i \in 1..Len(before) :
           \E j \in 1..Len(after) :
               /\ DateOf(after[j]) = DateOf(before[i])
               /\ DOMAIN before[i] \subseteq DOMAIN after[j]
               /\ \A k \in DOMAIN before[i] : after[j][k] = before[i][k]

LeadAndWeatherColumns ==
    {"total_leads", "dm_leads", "organic_leads"} \cup WeatherFields

\* C20: engineer_features, normalize_leads and build_streaks only add
\* columns: the frame returned has as many rows as the frame passed in, every
\* row keeps its lead counts and weather fields (and every other column), and
\* the frame passed in is after the call what the caller had built.
C20_OnlyAddColumns ==
    /\ fpc # "lawn" =>
           /\ ColumnsKept(lp_full.arg, lp_full.ret)
           /\ lp_full.arg = SelectSeq(SortByDate(MergedRows(ftab)),
                                      LAMBDA r : r.year \in FullYears)
           /\ \A i \in 1..Len(lp_full.arg) :
                  LeadAndWeatherColumns \subseteq DOMAIN lp_full.arg[i]
    /\ Len(mdf) >= 2 =>
           /\ ColumnsKept(mdf[1], mdf[2])
           /\ mdf[1] = load_data(MergedRows(ftab))
           /\ \A i \in 1..Len(mdf[1]) : DateOf(mdf[2][i]) = DateOf(mdf[1][i])
    /\ Len(mdf) = 3 =>
           /\ ColumnsKept(mdf[2], mdf[3])
           /\ \A i \in 1..Len(mdf[2]) :
                  /\ DateOf(mdf[3][i]) = DateOf(mdf[2][i])
                  /\ DOMAIN mdf[2][i]
                         = DOMAIN mdf[1][i]
                           \cup {"week_baseline", "leads_vs_baseline",
                                 "leads_ratio"}

C20_Witness ==
    /\ FeaturesDone
    /\ Len(lp_full.arg) = 6 /\ Len(lp_full.ret) = 6
    /\ "temp_max_3d_avg" \notin DOMAIN lp_full.arg[1]
    /\ "temp_max_3d_avg" \in DOMAIN lp_full.ret[1]
    /\ Len(mdf[3]) >= 4
    /\ "nice_streak" \in DOMAIN mdf[3][1]
    /\ "leads_ratio" \in DOMAIN mdf[2][1]
    /\ \E i \in 1..Len(mdf[3]) : mdf[3][i].nice_streak = 2

-----------------------------------------------------------------------------
(* lawn_lead_prediction.main: the weather fetch, the merge, the weather    *)
(* impact analysis, the prediction model and the seasonal projection.      *)
(* The leads cover the first MaxLDays days of seasons 2023 and 2024, one   *)
(* day less of season 2025 and one day of the 2026 partial season; daily   *)
(* names, per date, the kind of day (its lead counts, and the weather the  *)
(* archive holds for it) or "norow" for a date without leads.  api is the  *)
(* set of seasons whose archive request raises.                            *)
(* A mean over the rows of a day_of_season is held times 6.                *)

MaxLDays == 3

LSlots ==
    ({2023, 2024} \X (0..(MaxLDays - 1)))
    \cup ({2025} \X (0..(MaxLDays - 2)))
    \cup {<<2026, MaxLDays - 1>>}

KindOfYear(year) ==
    CASE year = 2023 -> "mild52"
      [] year = 2024 -> "hot60"
      [] year = 2025 -> "cold40"
      [] year = 2026 -> "hot60"

\* The most dates of LSlots a table has no row for.
MaxMissing == 2

LTables ==
    { [s \in LSlots |->
          IF s \notin P THEN "norow"
          ELSE IF s = <<2025, 0>> THEN k ELSE KindOfYear(s[1])] :
        P \in { Q \in SUBSET LSlots : Cardinality(LSlots \ Q) <= MaxMissing },
        k \in {"cold40", "snow30"} }

FetchYears == 2021..2026

ApiFailures == { {}, {2025}, {2026}, FetchYears }

\* The weather columns of a date the fetched frames have no row for.
NoWeather ==
    [temp_max |-> NaN, sunshine_hrs |-> NaN, precip_in |-> NaN,
     snowfall_in |-> NaN, snow_depth |-> NaN, rain_in |-> NaN]

\* Mutation of fetch_all_weather: a failed request empties the result.
fetch_all_weather_strict(failing) ==
    IF failing = {} THEN SortByDate({ [year |-> y, day |-> 0] : y \in FetchYears })
    ELSE <<>>

\* fetch_all_weather: the seasons whose frame is appended to frames, in the
\* order of the loop; a request that raises is reported and skipped
fetch_all_weather(failing) ==
    SortByDate({ [year |-> y, day |-> 0] : y \in FetchYears \ failing })

\* daily.merge(weather, on='date', how='left')
MergeWeather(table, fetched) ==
    LET got == { fetched[i].year : i \in 1..Len(fetched) }
        rows == SortByDate(MergedRows(table))
    IN  [i \in 1..Len(rows) |->
            IF rows[i].year \in got THEN rows[i]
            ELSE Extend(rows[i], NoWeather)]

\* analyze_weather_impact, lines 374-392: one row of cond_stats per weather
\* condition that occurs in the rows of 2021-2025
CondStats(frame) ==
    LET years == SelectSeq(frame, LAMBDA r : r.year \in FullYears)
        label == [i \in 1..Len(years) |-> classify_weather_condition(years[i])]
    IN  { [weather_condition |-> c,
           count |-> Cardinality({ i \in 1..Len(years) : label[i] = c })] :
          c \in { label[i] : i \in 1..Len(years) } }

\* full_years[available_features]: the feature columns of a row.  Of the
\* calendar columns dow, day_of_season and week_num are held (is_weekend,
\* is_saturday and month are functions of the date too), and of the raw
\* weather columns temp_mean and wind_max_mph are left out.
LawnFeatureCols(r) ==
    [dow |-> Num(r.dow), day_of_season |-> Num(r.day_of_season),
     week_num |-> Num(r.week_num),
     temp_max |-> r.temp_max, sunshine_hrs |-> r.sunshine_hrs,
     precip_in |-> r.precip_in, snowfall_in |-> r.snowfall_in,
     is_snow |-> Num(r.is_snow), is_rainy |-> Num(r.is_rainy),
     is_sunny |-> Num(r.is_sunny),
     temp_max_3d_avg |-> r.temp_max_3d_avg,
     sunshine_3d_avg |-> r.sunshine_3d_avg,
     year_trend |-> Num(r.year_trend)]

\* build_prediction_model, lines 525-548: X, y_total and y_organic
PredictionFrame(frame) ==
    LET full_years ==
            DropNaRows(lp_engineer_features(
                SelectSeq(frame, LAMBDA r : r.year \in FullYears)))
    IN  [X |-> [i \in 1..Len(full_years) |->
                   [c \in DOMAIN LawnFeatureCols(full_years[i]) |->
                       FillNa0(LawnFeatureCols(full_years[i])[c])]],
         y_total |-> [i \in 1..Len(full_years) |-> full_years[i].total_leads],
         y_organic |->
             [i \in 1..Len(full_years) |-> full_years[i].organic_leads]]

NoFrame == [X |-> <<>>, y_total |-> <<>>, y_organic |-> <<>>]

NoModels == [total |-> NotFitted, organic |-> NotFitted]

RECURSIVE SumCells(_)
SumCells(cells) ==
    IF cells = <<>> THEN 0 ELSE Head(cells).val + SumCells(Tail(cells))

\* groupby('day_of_season').agg({col: 'mean'}) for one day_of_season, times
\* 6: the mean of the values present, NaN when there is none
DayMean(frame, dos, col) ==
    LET rows == SelectSeq(frame, LAMBDA r : r.day_of_season = dos
                                            /\ r[col].tag = "num")
    IN  IF rows = <<>> THEN NaN
        ELSE Num((6 * SumCells([i \in 1..Len(rows) |-> rows[i][col]]))
                 \div Len(rows))

\* build_seasonal_projection, lines 764-777: the day_of_season values of
\* avg_by_day
ProjectionDays(frame) ==
    { frame[i].day_of_season :
        i \in { j \in 1..Len(frame) : frame[j].year \in FullYears } }

\* build_seasonal_projection, lines 795-814: feature_row
ProjectionFeatureRow(years, dos, dow_val) ==
    [dow |-> Num(dow_val), day_of_season |-> Num(dos),
     week_num |-> Num(WeekNum(2025, dos)),
     temp_max |-> DayMean(years, dos, "temp_max"),
     sunshine_hrs |-> DayMean(years, dos, "sunshine_hrs"),
     precip_in |-> DayMean(years, dos, "precip_in"),
     snowfall_in |-> DayMean(years, dos, "snowfall_in"),
     is_snow |-> Num(Bit(Gt(DayMean(years, dos, "snowfall_in"), 6 * 5))),
     is_rainy |-> Num(Bit(Gt(DayMean(years, dos, "precip_in"), 6 * 10))),
     is_sunny |-> Num(Bit(Ge(DayMean(years, dos, "sunshine_hrs"), 6 * 8))),
     temp_max_3d_avg |-> DayMean(years, dos, "temp_max"),
     sunshine_3d_avg |-> DayMean(years, dos, "sunshine_hrs"),
     year_trend |-> Num(4)]

\* Mutation of ProjectionPairs: the inner loop covers Monday to Friday only.
ProjectionPairsWeekdays(frame) ==
    LET days == { frame[i].day_of_season :
                    i \in { j \in 1..Len(frame) : frame[j].year \in FullYears } }
        rank(d) == Cardinality({ o \in days : o < d })
    IN  [k \in 1..(5 * Cardinality(days)) |->
            [day_of_season |-> CHOOSE d \in days : rank(d) = (k - 1) \div 5,
             dow |-> (k - 1) % 5]]

\* build_seasonal_projection, lines 785-791: the (day_of_season, dow) pairs
\* in the order of the two loops
ProjectionPairs(frame) ==
    LET days == ProjectionDays(frame)
        rank(d) == Cardinality({ o \in days : o < d })
    IN  [k \in 1..(7 * Cardinality(days)) |->
            [day_of_season |-> CHOOSE d \in days : rank(d) = (k - 1) \div 7,
             dow |-> (k - 1) % 7]]

\* model.predict raises ValueError on a vector holding NaN
HasNaN(v) == \E c \in DOMAIN v : v[c].tag = "nan"

\* build_prediction_model, lines 525-530: full_years, the frame handed to
\* quantify_weather_uplift
full_years(frame) ==
    DropNaRows(lp_engineer_features(
        SelectSeq(frame, LAMBDA r : r.year \in FullYears)))

MaxUpliftCalls == 2

NoUplift == [df |-> <<>>, calls |-> <<>>]

\* Series.median(), times 2: the middle value of the values present, or the
\* sum of the two middle values halved; NaN when no value is present
Median(cells) ==
    LET vals == SelectSeq(cells, LAMBDA x : x.tag = "num")
        n == Len(vals)
        kth(k) == CHOOSE v \in { vals[i].val : i \in 1..n } :
                      /\ Cardinality({ i \in 1..n : vals[i].val < v }) < k
                      /\ k <= Cardinality({ i \in 1..n : vals[i].val <= v })
    IN  IF n = 0 THEN NaN
        ELSE IF n % 2 = 1 THEN Num(2 * kth((n + 1) \div 2))
        ELSE Num(kth(n \div 2) + kth((n \div 2) + 1))

\* quantify_weather_uplift, line 635: baseline = df[features].median()
Baseline(frame) ==
    [c \in DOMAIN LawnFeatureCols(frame[1]) |->
        Median([i \in 1..Len(frame) |-> LawnFeatureCols(frame[i])[c]])]

\* quantify_weather_uplift, lines 637-677: the values the scenarios assign,
\* inches in hundredths (is_weekend, is_saturday and temp_mean are not held)
ScenarioAssignments ==
    << [scenario |-> "Sunny & Warm (70F, 10hrs sun)",
        assign |-> [temp_max |-> 70, sunshine_hrs |-> 10, precip_in |-> 0,
                    snowfall_in |-> 0, is_snow |-> 0, is_rainy |-> 0,
                    is_sunny |-> 1, dow |-> 2,
                    temp_max_3d_avg |-> 68, sunshine_3d_avg |-> 9]],
       [scenario |-> "Cloudy & Cool (50F, 3hrs sun)",
        assign |-> [temp_max |-> 50, sunshine_hrs |-> 3, precip_in |-> 0,
                    snowfall_in |-> 0, is_snow |-> 0, is_rainy |-> 0,
                    is_sunny |-> 0, dow |-> 2,
                    temp_max_3d_avg |-> 52, sunshine_3d_avg |-> 4]],
       [scenario |-> "Rainy Day (55F, 1hr sun)",
        assign |-> [temp_max |-> 55, sunshine_hrs |-> 1, precip_in |-> 50,
                    snowfall_in |-> 0, is_snow |-> 0, is_rainy |-> 1,
                    is_sunny |-> 0, dow |-> 2,
                    temp_max_3d_avg |-> 55, sunshine_3d_avg |-> 3]],
       [scenario |-> "Snow Day (35F, snow)",
        assign |-> [temp_max |-> 35, sunshine_hrs |-> 2, precip_in |-> 30,
                    snowfall_in |-> 200, is_snow |-> 1, is_rainy |-> 0,
                    is_sunny |-> 0, dow |-> 2,
                    temp_max_3d_avg |-> 36, sunshine_3d_avg |-> 3]],
       [scenario |-> "Peak Spring (65F, sunny, Wed)",
        assign |-> [temp_max |-> 65, sunshine_hrs |-> 9, precip_in |-> 0,
                    snowfall_in |-> 0, is_snow |-> 0, is_rainy |-> 0,
                    is_sunny |-> 1, dow |-> 2,
                    day_of_season |-> 45, week_num |-> 14,
                    temp_max_3d_avg |-> 63, sunshine_3d_avg |-> 8]],
       [scenario |-> "Saturday (same as peak spring)",
        assign |-> [temp_max |-> 65, sunshine_hrs |-> 9, precip_in |-> 0,
                    snowfall_in |-> 0, is_snow |-> 0, is_rainy |-> 0,
                    is_sunny |-> 1, dow |-> 5,
                    day_of_season |-> 45, week_num |-> 14,
                    temp_max_3d_avg |-> 63, sunshine_3d_avg |-> 8]] >>

\* baseline.assign(...): a copy of baseline with the assigned columns.  The
\* vector holds medians times 2, and the rolling averages, kept times 6 in
\* the frame, times 12.
Assign(baseline, assign) ==
    [c \in DOMAIN baseline |->
        IF c \in DOMAIN assign
        THEN Num((IF c \in {"temp_max_3d_avg", "sunshine_3d_avg"}
                  THEN 12 ELSE 2) * assign[c])
        ELSE baseline[c]]

\* quantify_weather_uplift, lines 679-691: results.  A row's predicted_leads
\* is model.predict of the scenario's vector and its vs_baseline_pct a
\* function of that and of model.predict of the baseline; results is held
\* as the model, the baseline and the scenarios' vectors.
UpliftResults(m, baseline) ==
    [by |-> m,
     baseline |-> baseline,
     rows |-> << [scenario |-> "Typical Weekday (baseline)", at |-> baseline] >>
              \o [i \in 1..Len(ScenarioAssignments) |->
                     [scenario |-> ScenarioAssignments[i].scenario,
                      at |-> Assign(baseline, ScenarioAssignments[i].assign)]]]

NoResults == [by |-> NotFitted, baseline |-> <<>>, rows |-> <<>>]

\* Mutation of quantify_weather_uplift: the first row of df is dropped in
\* place.
quantify_weather_uplift_drops_row(m, frame) ==
    IF HasNaN(Baseline(frame))
    THEN [df |-> Tail(frame), raised |-> TRUE, ret |-> NoResults]
    ELSE [df |-> Tail(frame), raised |-> FALSE,
          ret |-> UpliftResults(m, Baseline(frame))]

\* quantify_weather_uplift(model, df, features): df after the call, whether
\* model.predict raised on a baseline holding NaN, and results_df
quantify_weather_uplift(m, frame) ==
    IF HasNaN(Baseline(frame))
    THEN [df |-> frame, raised |-> TRUE, ret |-> NoResults]
    ELSE [df |-> frame, raised |-> FALSE,
          ret |-> UpliftResults(m, Baseline(frame))]

InitLawn ==
    /\ daily \in LTables
    /\ api \in ApiFailures
    /\ weather = <<>> /\ daily_weather = <<>> /\ cond_stats = {}
    /\ X_full = NoFrame /\ models = NoModels
    /\ projection = <<>> /\ X_pred = <<>>
    /\ uplift = NoUplift
    /\ lpc = "fetch"
    /\ CIdle /\ SIdle /\ HIdle /\ KIdle /\ FIdle /\ DIdle

\* main: weather = fetch_all_weather()
FetchAllWeather ==
    /\ lpc = "fetch"
    /\ weather' = fetch_all_weather(api)
    /\ lpc' = "fetched"
    /\ UNCHANGED <<daily, api, daily_weather, cond_stats, X_full, models,
                   projection, X_pred, uplift, cvars, svars, hvars, kvars,
                   fvars, dvars>>

\* main: if weather.empty: sys.exit(1)
MainExit ==
    /\ lpc = "fetched" /\ weather = <<>>
    /\ lpc' = "exit"
    /\ UNCHANGED <<daily, api, weather, daily_weather, cond_stats, X_full,
                   models, projection, X_pred,
                   uplift, cvars, svars, hvars, kvars,
                   fvars, dvars>>

\* main: daily_weather = daily.merge(weather, on='date', how='left')
MainMerge ==
    /\ lpc = "fetched" /\ weather # <<>>
    /\ daily_weather' = MergeWeather(daily, weather)
    /\ lpc' = "impact"
    /\ UNCHANGED <<daily, api, weather, cond_stats, X_full, models,
                   projection, X_pred, uplift, cvars, svars, hvars, kvars,
                   fvars, dvars>>

\* main: analyze_weather_impact(daily_weather)
AnalyzeWeatherImpact ==
    /\ lpc = "impact"
    /\ cond_stats' = CondStats(daily_weather)
    /\ lpc' = "frame"
    /\ UNCHANGED <<daily, api, weather, daily_weather, X_full, models,
                   projection, X_pred, uplift, cvars, svars, hvars, kvars,
                   fvars, dvars>>

\* build_prediction_model up to X = X.fillna(0)
BuildFrame ==
    /\ lpc = "frame"
    /\ X_full' = PredictionFrame(daily_weather)
    /\ uplift' = [df |-> full_years(daily_weather), calls |-> <<>>]
    /\ lpc' = "total"
    /\ UNCHANGED <<daily, api, weather, daily_weather, cond_stats, models,
                   projection, X_pred, cvars, svars, hvars, kvars, fvars,
                   dvars>>

\* train_and_evaluate(X, y_total, ...): cross_val_score, which raises when
\* there are too few rows, then model.fit(X, y)
TrainTotal ==
    /\ lpc = "total"
    /\ IF TooFewSamples(Len(X_full.X))
       THEN models' = models /\ lpc' = "error"
       ELSE /\ models' = [models EXCEPT !.total = Fit(X_full.X, X_full.y_total)]
            /\ lpc' = "organic"
    /\ UNCHANGED <<daily, api, weather, daily_weather, cond_stats, X_full,
                   projection, X_pred, uplift, cvars, svars, hvars, kvars,
                   fvars, dvars>>

\* train_and_evaluate(X, y_organic, ...)
TrainOrganic ==
    /\ lpc = "organic"
    /\ IF TooFewSamples(Len(X_full.X))
       THEN models' = models /\ lpc' = "error"
       ELSE /\ models' =
                   [models EXCEPT !.organic = Fit(X_full.X, X_full.y_organic)]
            /\ lpc' = "uplift"
    /\ UNCHANGED <<daily, api, weather, daily_weather, cond_stats, X_full,
                   projection, X_pred, uplift, cvars, svars, hvars, kvars,
                   fvars, dvars>>

\* quantify_weather_uplift(model_total, full_years, available_features):
\* the call of build_prediction_model, which then returns, and further
\* invocations on the same model, table and feature list, up to
\* MaxUpliftCalls in all
QuantifyUplift ==
    /\ lpc = "uplift" /\ Len(uplift.calls) < MaxUpliftCalls
    /\ LET call == quantify_weather_uplift(models.total, uplift.df)
       IN  /\ uplift' = [df |-> call.df, calls |-> Append(uplift.calls, call.ret)]
           /\ lpc' = IF call.raised THEN "error" ELSE "uplift"
    /\ UNCHANGED <<daily, api, weather, daily_weather, cond_stats, X_full,
                   models, projection, X_pred, cvars, svars, hvars, kvars,
                   fvars, dvars>>

\* build_prediction_model: plot_model_results and the return to main
PredictionModelReturn ==
    /\ lpc = "uplift" /\ Len(uplift.calls) = 1
    /\ lpc' = "project"
    /\ UNCHANGED <<daily, api, weather, daily_weather, cond_stats, X_full,
                   models, projection, X_pred, uplift, cvars, svars, hvars,
                   kvars, fvars, dvars>>

\* build_seasonal_projection: one vector per (day_of_season, dow) handed to
\* model.predict, up to the first that raises; the projection is returned
\* when none does
SeasonalProjection ==
    /\ lpc = "project"
    /\ LET years == SelectSeq(daily_weather, LAMBDA r : r.year \in FullYears)
           pairs == ProjectionPairs(daily_weather)
           vectors == [k \in 1..Len(pairs) |->
                          ProjectionFeatureRow(years, pairs[k].day_of_season,
                                               pairs[k].dow)]
           bad == { k \in 1..Len(pairs) : HasNaN(vectors[k]) }
       IN  IF bad = {}
           THEN /\ X_pred' = vectors
                /\ projection' = pairs
                /\ lpc' = "done"
           ELSE /\ X_pred' = SubSeq(vectors, 1,
                                    CHOOSE k \in bad : \A o \in bad : k <= o)
                /\ projection' = projection
                /\ lpc' = "error"
    /\ UNCHANGED <<daily, api, weather, daily_weather, cond_stats, X_full,
                   models, uplift, cvars, svars, hvars, kvars,
                   fvars, dvars>>

NextLawn ==
    \/ FetchAllWeather \/ MainExit \/ MainMerge \/ AnalyzeWeatherImpact
    \/ BuildFrame \/ TrainTotal \/ TrainOrganic \/ QuantifyUplift
    \/ PredictionModelReturn \/ SeasonalProjection

SpecLawn == InitLawn /\ [][NextLawn]_vars

-----------------------------------------------------------------------------
(* Claims about the run of lawn_lead_prediction.main.                      *)

\* C15: every feature vector handed to a model, the rows of the training
\* matrix and the vectors of the seasonal projection, has a value in every
\* feature column (a missing value having been replaced by 0).
C15_FeatureVectorsComplete ==
    /\ \A i \in 1..Len(X_full.X) : ~HasNaN(X_full.X[i])
    /\ \A k \in 1..Len(X_pred) : ~HasNaN(X_pred[k])

FullYearRows == SelectSeq(daily_weather, LAMBDA r : r.year \in FullYears)

\* C16: the seasonal projection that is returned has exactly one row per
\* pair of a day_of_season present in the rows of 2021-2025 and a weekday
\* 0..6, so 7 rows per such day_of_season.
C16_ProjectionRows ==
    lpc = "done" =>
        LET days == { FullYearRows[i].day_of_season :
                        i \in 1..Len(FullYearRows) }
        IN  /\ { <<projection[k].day_of_season, projection[k].dow>> :
                   k \in 1..Len(projection) } = days \X (0..6)
            /\ Len(projection) = 7 * Cardinality(days)

\* A projection was returned for a table in which the partial season has a
\* row on a day_of_season that no row of 2021-2025 has.
C16_Witness ==
    /\ lpc = "done"
    /\ Len(projection) = 7 * (MaxLDays - 1)
    /\ \E i \in 1..Len(daily_weather) :
          /\ daily_weather[i].year = 2026
          /\ \A j \in 1..Len(FullYearRows) :
                FullYearRows[j].day_of_season # daily_weather[i].day_of_season

\* C17: every vector of the seasonal projection has the year_trend of the
\* most recent year among the rows of 2021-2025 it is built from, that year
\* minus 2021.
C17_ProjectionYearTrend ==
    \A k \in 1..Len(X_pred) :
        \A i \in 1..Len(FullYearRows) :
            (\A j \in 1..Len(FullYearRows) :
                FullYearRows[j].year <= FullYearRows[i].year)
            => X_pred[k].year_trend = Num(FullYearRows[i].year - 2021)

\* C18: every bucket reported by the weather impact analysis holds at least
\* 3 observations.
C18_BucketsOfThree ==
    \A b \in cond_stats : b.count >= 3

\* C19: when the weather request of any season fails, no model is trained.
C19_FetchFailureStopsRun ==
    (lpc # "fetch" /\ api # {}) => models = NoModels

-----------------------------------------------------------------------------
(* Claims about the state of the streak scan.                              *)

\* The positions of df the scan has been through.
Scanned ==
    IF spc \in {"load", "begin"} THEN {}
    ELSE { i \in 1..Len(df) :
             /\ df[i].year \notin Range(years_left)
             /\ i \notin Range(idx) }

\* C24: after every step of the scan at most one of the two counters is
\* positive, and on every scanned row nice_streak >= 1 exactly when the row
\* is 'nice', bad_streak >= 1 exactly when it is 'bad', and both are 0
\* exactly when it is 'ok'.
C24_OneStreakAtATime ==
    /\ ~(nice_count > 0 /\ bad_count > 0)
    /\ \A i \in Scanned :
          /\ ~(df[i].nice_streak > 0 /\ df[i].bad_streak > 0)
          /\ df[i].nice_streak >= 1 <=> df[i].weather_quality = "nice"
          /\ df[i].bad_streak >= 1 <=> df[i].weather_quality = "bad"
          /\ (df[i].nice_streak = 0 /\ df[i].bad_streak = 0)
                 <=> df[i].weather_quality = "ok"

\* In the middle of a year's scan a 'bad' row has just followed two 'nice'
\* rows, and an 'ok' row is still to come.
C24_Witness ==
    /\ spc = "scan"
    /\ bad_count = 1
    /\ \E i \in Scanned : df[i].nice_streak = 2
    /\ \E i \in Range(idx) : df[i].weather_quality = "ok"

\* C25: in build_streaks every row of a year after the first has the
\* weather_quality of the preceding row of that year as prev_day_quality,
\* every row after the second has that of the row two before it as
\* prev_2day_quality, and so nice_streak >= 2 implies prev_day_quality =
\* 'nice' and bad_streak >= 2 implies prev_day_quality = 'bad'.
C25_PreviousQualities ==
    spc = "done" =>
        \A y \in DfYears :
            LET rows == YearRows(y)
            IN  \A i \in 1..Len(rows) :
                    /\ i >= 2 => rows[i].prev_day_quality
                                    = rows[i - 1].weather_quality
                    /\ i >= 3 => rows[i].prev_2day_quality
                                    = rows[i - 2].weather_quality
                    /\ rows[i].nice_streak >= 2
                           => rows[i].prev_day_quality = "nice"
                    /\ rows[i].bad_streak >= 2
                           => rows[i].prev_day_quality = "bad"

\* A year of three rows 'bad', 'bad', 'nice' and a year whose second row
\* continues a nice streak.
C25_Witness ==
    /\ spc = "done"
    /\ \E y \in DfYears :
           LET rows == YearRows(y)
           IN  /\ Len(rows) >= 3
               /\ rows[2].bad_streak = 2
               /\ rows[3].weather_quality = "nice"
               /\ rows[3].prev_2day_quality = "bad"
    /\ \E y \in DfYears :
           LET rows == YearRows(y)
           IN  Len(rows) >= 2 /\ rows[2].nice_streak = 2

-----------------------------------------------------------------------------
(* The trainer's and the holdout validator's rolling averages.             *)

\* C26: for the same merged table the temp_max_3d_avg and sunshine_3d_avg of
\* a date are the same in the trainer pipeline (engineer_features, then drop
\* the rows lacking temp_max or sunshine_hrs) and in the holdout pipeline
\* (drop those rows, then engineer_features).
C26_SameRollingInBothPipelines ==
    fpc \notin {"lawn", "validation"} =>
        LET trainer == DropNaRows(lp_full.ret)
        IN  \A i \in 1..Len(trainer) : \A j \in 1..Len(mv_full) :
                (trainer[i].year = mv_full[j].year
                 /\ trainer[i].day = mv_full[j].day)
                => /\ trainer[i].temp_max_3d_avg = mv_full[j].temp_max_3d_avg
                   /\ trainer[i].sunshine_3d_avg = mv_full[j].sunshine_3d_avg

-----------------------------------------------------------------------------
(* The three copies of classify_day_weather.                               *)

\* C28: the copies of classify_day_weather in model_validation,
\* seasonal_weather_interaction and weather_momentum_analysis return the
\* same label for every weather record, records with missing fields
\* included.
C28_CopiesAgree ==
    /\ (quality # "unset" /\ mv_quality # "unset") => quality = mv_quality
    /\ (quality # "unset" /\ sw_quality # "unset") => quality = sw_quality
    /\ (mv_quality # "unset" /\ sw_quality # "unset")
           => mv_quality = sw_quality

\* All three have classified a record at the 'nice' thresholds whose
\* precipitation is NaN and whose snow fields are absent.
C28_Witness ==
    /\ row.sunshine_hrs = Num(7) /\ row.temp_max = Num(55)
    /\ row.precip_in = NaN
    /\ row.snowfall_in = Absent /\ row.snow_depth = Absent
    /\ quality = "nice" /\ mv_quality = "nice" /\ sw_quality = "nice"

-----------------------------------------------------------------------------
(* The 2026 early season check of run_holdout_validation.                  *)

\* C23: in run_holdout_validation the model is fitted exactly once, before
\* any prediction, and scoring the 2026 partial season neither fits it again
\* nor changes it; the holdout metrics and weekly table written are the same
\* whether or not the 2026 check is run, and no row of 2026 is in the
\* training or the test set.
C23_CheckLeavesModelAlone ==
    /\ \A k \in Runs :
          /\ fit_calls[k] = IF FitDone THEN 1 ELSE 0
          /\ ~FitDone => y_pred[k] = NotPredicted /\ pred_2026[k] = NotPredicted
          /\ FitDone => model[k] = Fit(X_train(k), y_train(k))
          /\ 2026 \notin YearsOf(train[k]) \cup YearsOf(test[k])
    /\ (hpc = "saved" /\ htab[2] = WithoutYear(htab[1], 2026))
           => validation[1] = validation[2]

\* Run 1 has scored a row of 2026 and run 2, on the same table without it,
\* has skipped the check; both have written a result with a test set.
C23_Witness ==
    /\ hpc = "saved"
    /\ htab[2] = WithoutYear(htab[1], 2026)
    /\ pred_2026[1] # NotPredicted /\ pred_2026[2] = NotPredicted
    /\ Len(pred_2026[1].at) = 1
    /\ validation[1].y_test # <<>> /\ train[1] # <<>>

-----------------------------------------------------------------------------
(* The flags of the seasonal projection.                                   *)

\* The mean, times 6, of a column over the 2021-2025 rows of a
\* day_of_season, a missing mean taken as 0.
AveragedWeather(dos, col) == FillNa0(DayMean(FullYearRows, dos, col))

\* C27: in build_seasonal_projection the vector's is_snow, is_rainy and
\* is_sunny follow engineer_features' rules (is_snow from snowfall > 0.05 or
\* snow depth > 0.5, is_rainy from rain > 0.1, is_sunny from sunshine >= 8)
\* applied to the averaged weather of the day_of_season.
C27_ProjectionFlagsAsEngineered ==
    \A k \in 1..Len(X_pred) :
        LET dos == X_pred[k].day_of_season.val
        IN  /\ X_pred[k].is_snow =
                   Num(Bit(Gt(AveragedWeather(dos, "snowfall_in"), 6 * 5)
                           \/ Gt(AveragedWeather(dos, "snow_depth"), 6 * 50)))
            /\ X_pred[k].is_rainy =
                   Num(Bit(Gt(AveragedWeather(dos, "rain_in"), 6 * 10)))
            /\ X_pred[k].is_sunny =
                   Num(Bit(Ge(AveragedWeather(dos, "sunshine_hrs"), 6 * 8)))

-----------------------------------------------------------------------------
(* Scenario scoring.                                                       *)

-----------------------------------------------------------------------------
(* lawn_lead_prediction.main, step 1: load_lead_files, filter_season and   *)
(* aggregate_daily.  A lead is a date and a source; EstimateRequestedDate  *)
(* holds a calendar date, and a source is the sequence of its characters.  *)
(* lead_files names, per date, the batch of leads the files hold for it.   *)

LeadDates ==
    { [year |-> 2024, month |-> 2, day |-> 14],
      [year |-> 2024, month |-> 2, day |-> 15],
      [year |-> 2024, month |-> 2, day |-> 29],
      [year |-> 2024, month |-> 5, day |-> 10],
      [year |-> 2024, month |-> 5, day |-> 11],
      [year |-> 2025, month |-> 2, day |-> 15],
      [year |-> 2025, month |-> 5, day |-> 10] }

\* The sources of the leads of one date: ProgramSourceDescription after
\* fillna('Unknown') and strip().
Batch(name) ==
    CASE name = "none" -> <<>>
      [] name = "dm" -> << <<"D", "M", " ", "1">>, <<"d", "m">> >>
      [] name = "mixed" ->
             << <<"D", "i", "r", "e", "c", "t", " ", "M", "a", "i", "l">>,
                <<"G", "o", "o", "g", "l", "e">>,
                <<"A", "d", "m", "i", "n">> >>
      [] name = "web" -> << <<"U", "n", "k", "n", "o", "w", "n">> >>

LeadTables == [LeadDates -> {"none", "dm", "mixed", "web"}]

\* str.upper() of one character
UpperChar(c) ==
    CASE c = "a" -> "A" [] c = "c" -> "C" [] c = "d" -> "D" [] c = "e" -> "E"
      [] c = "g" -> "G" [] c = "i" -> "I" [] c = "k" -> "K" [] c = "l" -> "L"
      [] c = "m" -> "M" [] c = "n" -> "N" [] c = "o" -> "O" [] c = "r" -> "R"
      [] c = "t" -> "T" [] c = "w" -> "W" [] OTHER -> c

Upper(str) == [i \in 1..Len(str) |-> UpperChar(str[i])]

StartsWith(str, prefix) ==
    Len(str) >= Len(prefix) /\ SubSeq(str, 1, Len(prefix)) = prefix

Contains(str, part) ==
    \E i \in 1..(Len(str) - Len(part) + 1) :
        SubSeq(str, i, i + Len(part) - 1) = part

\* Mutation of classify_source: a lead without a source description is put
\* in a class of its own.
classify_source_unknown(source) ==
    LET str == Upper(source)
    IN  IF StartsWith(str, <<"D", "M">>)
           \/ Contains(str, <<"D", "I", "R", "E", "C", "T", " ",
                              "M", "A", "I", "L">>)
        THEN "Direct Mail"
        ELSE IF str = <<"U", "N", "K", "N", "O", "W", "N">> THEN "Unknown"
        ELSE "Organic/Digital"

classify_source(source) ==
    LET str == Upper(source)
    IN  IF StartsWith(str, <<"D", "M">>)
           \/ Contains(str, <<"D", "I", "R", "E", "C", "T", " ",
                              "M", "A", "I", "L">>)
        THEN "Direct Mail"
        ELSE "Organic/Digital"

DateOrd(d) == d.year * 10000 + d.month * 100 + d.day

\* The dates of S, ascending.
SortDates(S) ==
    [i \in 1..Cardinality(S) |->
        CHOOSE d \in S :
            Cardinality({ o \in S : DateOrd(o) < DateOrd(d) }) = i - 1]

\* load_lead_files: combined, the rows of the files one after the other
\* (here from the last date to the first)
RECURSIVE LeadsOf(_, _)
LeadsOf(table, dates) ==
    IF dates = <<>> THEN <<>>
    ELSE LeadsOf(table, Tail(dates))
         \o [i \in 1..Len(Batch(table[Head(dates)])) |->
                [date |-> Head(dates),
                 source |-> Batch(table[Head(dates)])[i]]]

\* Mutation of filter_season: the window runs to the end of May.
filter_season_through_may(frame) ==
    SelectSeq(frame, LAMBDA r : /\ r.date.month * 100 + r.date.day >= 215
                                /\ r.date.month * 100 + r.date.day <= 531)

filter_season(frame) ==
    SelectSeq(frame, LAMBDA r : /\ r.date.month * 100 + r.date.day >= 215
                                /\ r.date.month * 100 + r.date.day <= 510)

IsLeap(year) == year % 4 = 0 /\ (year % 100 # 0 \/ year % 400 = 0)

DaysInMonth(year, month) ==
    CASE month = 1 -> 31
      [] month = 2 -> IF IsLeap(year) THEN 29 ELSE 28
      [] month = 3 -> 31
      [] month = 4 -> 30
      [] month = 5 -> 31

RECURSIVE DayOfYear(_, _, _)
DayOfYear(year, month, day) ==
    IF month = 1 THEN day
    ELSE DaysInMonth(year, month - 1) + DayOfYear(year, month - 1, day)

\* (date - Timestamp(year-02-15)).dt.days
DaysFromFeb15(d) ==
    DayOfYear(d.year, d.month, d.day) - DayOfYear(d.year, 2, 15)

\* groupby('date').size() of the rows of one source type
CountOn(frame, d, types) ==
    Cardinality({ i \in 1..Len(frame) :
                    /\ frame[i].date = d
                    /\ classify_source(frame[i].source) \in types })

\* Mutation of aggregate_daily: the table is reindexed over every date of
\* the lead files, a date without leads getting a row of zeros.
aggregate_daily_reindexed(frame) ==
    LET dates == SortDates({ d \in LeadDates :
                               /\ d.month * 100 + d.day >= 215
                               /\ d.month * 100 + d.day <= 510 })
    IN  [i \in 1..Len(dates) |->
            [date |-> dates[i],
             total_leads |->
                 CountOn(frame, dates[i], {"Direct Mail", "Organic/Digital"}),
             dm_leads |-> CountOn(frame, dates[i], {"Direct Mail"}),
             organic_leads |-> CountOn(frame, dates[i], {"Organic/Digital"}),
             year |-> dates[i].year,
             dow |-> DowOf(dates[i].year, DaysFromFeb15(dates[i])),
             week_num |-> WeekNum(dates[i].year, DaysFromFeb15(dates[i])),
             day_of_season |-> DaysFromFeb15(dates[i])]]

\* aggregate_daily: daily_total has a row per date that occurs in df; the
\* left merges give dm_leads and organic_leads, a missing count filled
\* with 0; the rows are sorted by date
aggregate_daily(frame) ==
    LET typed == [i \in 1..Len(frame) |->
                     Extend(frame[i],
                            [source_type |-> classify_source(frame[i].source)])]
        dates == SortDates({ typed[i].date : i \in 1..Len(typed) })
        size(d, types) ==
            Cardinality({ i \in 1..Len(typed) :
                            typed[i].date = d /\ typed[i].source_type \in types })
    IN  [i \in 1..Len(dates) |->
            [date |-> dates[i],
             total_leads |->
                 Cardinality({ j \in 1..Len(typed) : typed[j].date = dates[i] }),
             dm_leads |-> size(dates[i], {"Direct Mail"}),
             organic_leads |-> size(dates[i], {"Organic/Digital"}),
             year |-> dates[i].year,
             dow |-> DowOf(dates[i].year, DaysFromFeb15(dates[i])),
             week_num |-> WeekNum(dates[i].year, DaysFromFeb15(dates[i])),
             day_of_season |-> DaysFromFeb15(dates[i])]]

InitDaily ==
    /\ lead_files \in LeadTables
    /\ leads = <<>> /\ leads_season = <<>> /\ daily_rows = <<>>
    /\ dpc = "load"
    /\ CIdle /\ SIdle /\ HIdle /\ KIdle /\ FIdle /\ LIdle

\* main: leads = load_lead_files(workspace_root)
LoadLeadFiles ==
    /\ dpc = "load"
    /\ leads' = LeadsOf(lead_files, SortDates(LeadDates))
    /\ dpc' = "filter"
    /\ UNCHANGED <<lead_files, leads_season, daily_rows,
                   cvars, svars, hvars, kvars, fvars, lvars>>

\* main: leads_season = filter_season(leads)
FilterSeason ==
    /\ dpc = "filter"
    /\ leads_season' = filter_season(leads)
    /\ dpc' = "aggregate"
    /\ UNCHANGED <<lead_files, leads, daily_rows,
                   cvars, svars, hvars, kvars, fvars, lvars>>

\* main: daily = aggregate_daily(leads_season)
AggregateDaily ==
    /\ dpc = "aggregate"
    /\ daily_rows' = aggregate_daily(leads_season)
    /\ dpc' = "done"
    /\ UNCHANGED <<lead_files, leads, leads_season,
                   cvars, svars, hvars, kvars, fvars, lvars>>

NextDaily == LoadLeadFiles \/ FilterSeason \/ AggregateDaily

SpecDaily == InitDaily /\ [][NextDaily]_vars

-----------------------------------------------------------------------------
(* Claims about the daily table.                                           *)

\* C22: for every lead kept by filter_season (month-day from Feb 15 to May
\* 10) the day_of_season aggregate_daily computes is an integer from 0 to
\* 85, and 0 for Feb 15, in leap and non-leap years alike.
C22_DayOfSeasonRange ==
    dpc = "done" =>
        \A i \in 1..Len(leads_season) :
            \E k \in 1..Len(daily_rows) :
                /\ daily_rows[k].date = leads_season[i].date
                /\ daily_rows[k].day_of_season \in 0..85
                /\ (daily_rows[k].date.month = 2 /\ daily_rows[k].date.day = 15)
                       => daily_rows[k].day_of_season = 0

\* Feb 15 of a leap and of a non-leap year have day_of_season 0, May 10 has
\* 85 in the leap year and 84 in the other, and Feb 29 has 14.
C22_Witness ==
    /\ dpc = "done"
    /\ \E k \in 1..Len(daily_rows) :
          DateOrd(daily_rows[k].date) = 20240215 /\ daily_rows[k].day_of_season = 0
    /\ \E k \in 1..Len(daily_rows) :
          DateOrd(daily_rows[k].date) = 20250215 /\ daily_rows[k].day_of_season = 0
    /\ \E k \in 1..Len(daily_rows) :
          DateOrd(daily_rows[k].date) = 20240229 /\ daily_rows[k].day_of_season = 14
    /\ \E k \in 1..Len(daily_rows) :
          DateOrd(daily_rows[k].date) = 20240510 /\ daily_rows[k].day_of_season = 85
    /\ \E k \in 1..Len(daily_rows) :
          DateOrd(daily_rows[k].date) = 20250510 /\ daily_rows[k].day_of_season = 84
    /\ \E i \in 1..Len(leads) : DateOrd(leads[i].date) = 20240511

\* C29: in every row of aggregate_daily dm_leads + organic_leads =
\* total_leads.
C29_SegmentsSumToTotal ==
    \A k \in 1..Len(daily_rows) :
        daily_rows[k].dm_leads + daily_rows[k].organic_leads
            = daily_rows[k].total_leads

\* A date with leads of both classes, one with Direct Mail leads only and
\* one with a single lead without source description.
C29_Witness ==
    /\ dpc = "done"
    /\ \E k \in 1..Len(daily_rows) :
          daily_rows[k].dm_leads = 1 /\ daily_rows[k].organic_leads = 2
    /\ \E k \in 1..Len(daily_rows) :
          daily_rows[k].dm_leads = 2 /\ daily_rows[k].organic_leads = 0
    /\ \E k \in 1..Len(daily_rows) :
          daily_rows[k].dm_leads = 0 /\ daily_rows[k].organic_leads = 1

\* C30: aggregate_daily returns exactly one row per date that has at least
\* one lead, in ascending date order, each with total_leads >= 1; a date of
\* the season without leads has no row.
C30_OneRowPerLeadDate ==
    dpc = "done" =>
        /\ { daily_rows[k].date : k \in 1..Len(daily_rows) }
               = { leads_season[i].date : i \in 1..Len(leads_season) }
        /\ \A k \in 1..Len(daily_rows) : \A j \in 1..Len(daily_rows) :
               k < j => DateOrd(daily_rows[k].date) < DateOrd(daily_rows[j].date)
        /\ \A k \in 1..Len(daily_rows) : daily_rows[k].total_leads >= 1

\* Three dates with leads, one of them with three, stored last date first,
\* and a date of the season in between without any.
C30_Witness ==
    /\ dpc = "done"
    /\ Len(daily_rows) = 3
    /\ Len(leads_season) >= 5
    /\ DateOrd(leads_season[1].date) > DateOrd(leads_season[Len(leads_season)].date)
    /\ lead_files[[year |-> 2024, month |-> 2, day |-> 29]] = "none"
    /\ DateOrd(daily_rows[1].date) = 20240215
    /\ DateOrd(daily_rows[3].date) = 20250510

=============================================================================
